---- MODULE Spec2Model ----
(***************************************************************************)
(* State synchronisation engine of the Stream Deck tournament controller   *)
(* (stream-deck-controller/api_client.py, controller.py,                   *)
(* websocket_client.py).                                                   *)
(*                                                                         *)
(* Optional Python values are encoded as sequences: None is <<>> and a     *)
(* value v is <<v>>.  Strings that the code splits or converts (the scores *)
(* field) are sequences of one-character strings.  Python dicts are TLA+   *)
(* functions with a finite domain.  Display-only fields of Match           *)
(* (round_name, identifier) are not part of the model.                     *)
(***************************************************************************)
EXTENDS Integers, Sequences, FiniteSets, TLC

None == <<>>
Some(v) == <<v>>
IsSome(o) == o # <<>>
Val(o) == o[1]

\* Python truthiness of an optional int / an optional string
TruthyInt(o) == o # None /\ Val(o) # 0
TruthyStr(o) == o # None /\ Val(o) # ""

EmptyMap == <<>>
MapGet(map, k, default) == IF k \in DOMAIN map THEN map[k] ELSE default
MapPut(map, k, v) == (k :> v) @@ map

Range(s) == {s[i] : i \in DOMAIN s}

(***************************************************************************)
(* api_client.py : data classes                                            *)
(***************************************************************************)
MatchStates == {"pending", "open", "underway", "complete"}

\* Match.is_underway
is_underway(match) == match.state = "open" /\ match.underway_at # None

\* Match.display_name : the name shown for a player slot
SlotName(player) == IF player # None THEN Val(player).name ELSE "TBD"

\* TournamentState()
EmptyState ==
    [tournament_id |-> None, tournament_name |-> "", game_name |-> "",
     state |-> "pending", matches |-> <<>>, stations |-> <<>>,
     total_matches |-> 0, completed_matches |-> 0, last_update |-> 0]

(***************************************************************************)
(* api_client.py : _parse_matches                                          *)
(***************************************************************************)
\* str.lower() on the state strings of the model
Lower(s) ==
    CASE s = "OPEN" -> "open"
      [] s = "Complete" -> "complete"
      [] OTHER -> s

\* mutant: an unknown state string is kept as it is
ParseState_keeps(o) == IF o = None THEN "pending" ELSE Lower(Val(o))

\* MatchState(state_str), ValueError -> PENDING
ParseState(o) ==
    LET state_str == Lower(IF o = None THEN "pending" ELSE Val(o))
    IN IF state_str \in MatchStates THEN state_str ELSE "pending"

\* str.split(sep) on a sequence of characters
RECURSIVE SplitFrom(_, _, _, _)
SplitFrom(s, sep, i, cur) ==
    IF i > Len(s) THEN <<cur>>
    ELSE IF s[i] = sep THEN <<cur>> \o SplitFrom(s, sep, i + 1, <<>>)
    ELSE SplitFrom(s, sep, i + 1, Append(cur, s[i]))

Split(s, sep) == SplitFrom(s, sep, 1, <<>>)

\* str.strip()
RECURSIVE LStrip(_)
LStrip(s) == IF s # <<>> /\ Head(s) = " " THEN LStrip(Tail(s)) ELSE s

RECURSIVE RStrip(_)
RStrip(s) ==
    IF s # <<>> /\ s[Len(s)] = " " THEN RStrip(SubSeq(s, 1, Len(s) - 1)) ELSE s

Strip(s) == RStrip(LStrip(s))

Digits == {"0", "1", "2", "3"}
DigitVal(c) == CASE c = "0" -> 0 [] c = "1" -> 1 [] c = "2" -> 2 [] c = "3" -> 3

RECURSIVE DecVal(_)
DecVal(s) == IF s = <<>> THEN 0 ELSE 10 * DecVal(SubSeq(s, 1, Len(s) - 1)) + DigitVal(s[Len(s)])

\* int(seg) succeeds (no ValueError)
IntOk(seg) == Strip(seg) # <<>> /\ \A i \in DOMAIN Strip(seg) : Strip(seg)[i] \in Digits
IntOf(seg) == DecVal(Strip(seg))

\* scores_str = m.get('scores_csv') or m.get('scores') or ''
ScoresStr(m) ==
    IF m.scores_csv # None /\ Val(m.scores_csv) # <<>> THEN Val(m.scores_csv)
    ELSE IF m.scores # None /\ Val(m.scores) # <<>> THEN Val(m.scores)
    ELSE <<>>

\* the segment is used (len(scores) >= k and scores[k-1].strip())
SegUsed(segs, k) == Len(segs) >= k /\ Strip(segs[k]) # <<>>

\* mutant: a missing score reads as 1
SegScore_one(segs, k) == IF SegUsed(segs, k) THEN IntOf(segs[k]) ELSE 1

\* int(scores[k-1]) if ... else 0
SegScore(segs, k) == IF SegUsed(segs, k) THEN IntOf(segs[k]) ELSE 0

\* the raw record is a JSON object (m.get exists)
IsObject(m) == "id" \in DOMAIN m

\* the body of the per-record try block raises: m.get on a record that is
\* no object (AttributeError), int() on a segment that is no number
\* (ValueError)
ParseRaises(m) ==
    \/ ~IsObject(m)
    \/ LET segs == Split(ScoresStr(m), "-")
       IN \E k \in {1, 2} : SegUsed(segs, k) /\ ~IntOk(segs[k])

\* Player(...) if p_id else None
MakePlayer(p_id, participant_map) ==
    IF TruthyInt(p_id)
    THEN LET info == MapGet(participant_map, Val(p_id), EmptyMap)
         IN Some([id |-> Val(p_id),
                  name |-> MapGet(info, "name", "TBD"),
                  seed |-> MapGet(info, "seed", None)])
    ELSE None

\* station_map.get(str(station_id)) if station_id else None
LookupStation(station_id, station_map) ==
    IF TruthyStr(station_id) THEN MapGet(station_map, Val(station_id), None) ELSE None

\* Match(...) built from one raw record
ParseMatch(m, participant_map, station_map) ==
    LET segs == Split(ScoresStr(m), "-")
    IN [id |-> m.id,
        round |-> m.round,
        state |-> ParseState(m.state),
        player1 |-> MakePlayer(m.player1Id, participant_map),
        player2 |-> MakePlayer(m.player2Id, participant_map),
        player1_score |-> SegScore(segs, 1),
        player2_score |-> SegScore(segs, 2),
        winner_id |-> m.winnerId,
        station_id |-> m.stationId,
        station_name |-> LookupStation(m.stationId, station_map),
        underway_at |-> m.underwayAt]

\* the loop over matches_raw: a record whose parse raises is skipped
RECURSIVE ParseAll(_, _, _)
ParseAll(matches_raw, participant_map, station_map) ==
    IF matches_raw = <<>> THEN <<>>
    ELSE LET m == Head(matches_raw)
             rest == ParseAll(Tail(matches_raw), participant_map, station_map)
         IN IF ParseRaises(m) THEN rest
            ELSE <<ParseMatch(m, participant_map, station_map)>> \o rest

\* state_priority.get(match.state, 4), with is_underway first
StatePriority(match) ==
    IF is_underway(match) THEN 0
    ELSE CASE match.state = "underway" -> 0
           [] match.state = "open" -> 1
           [] match.state = "pending" -> 2
           [] match.state = "complete" -> 3
           [] OTHER -> 4

\* mutant: the key with round first ("sort by round and state priority")
sort_key_round_first(match) == <<match.round, StatePriority(match)>>

\* sort_key(match) = (priority, round); tuples compare lexicographically
sort_key(match) == <<StatePriority(match), match.round>>

KeyLess(a, b) == a[1] < b[1] \/ (a[1] = b[1] /\ a[2] < b[2])
KeyLeq(a, b) == ~KeyLess(b, a)

\* list.sort(key=sort_key): a stable sort
RECURSIVE InsertSorted(_, _)
InsertSorted(sorted, x) ==
    IF sorted = <<>> THEN <<x>>
    ELSE IF KeyLess(sort_key(x), sort_key(Head(sorted)))
         THEN <<x>> \o sorted
         ELSE <<Head(sorted)>> \o InsertSorted(Tail(sorted), x)

RECURSIVE SortMatches(_)
SortMatches(ms) ==
    IF ms = <<>> THEN <<>>
    ELSE InsertSorted(SortMatches(SubSeq(ms, 1, Len(ms) - 1)), ms[Len(ms)])

\* the value _parse_matches assigns to self._state.matches
ParsedMatches(matches_raw, participant_map, station_map) ==
    SortMatches(ParseAll(matches_raw, participant_map, station_map))

(***************************************************************************)
(* api_client.py : _parse_stations, refresh_state                          *)
(***************************************************************************)
\* Station(...) for every raw station; the value assigned to _state.stations
RECURSIVE ParsedStations(_)
ParsedStations(stations_raw) ==
    IF stations_raw = <<>> THEN <<>>
    ELSE <<[id |-> Head(stations_raw).id,
            name |-> Head(stations_raw).name,
            match_id |-> Head(stations_raw).matchId]>>
         \o ParsedStations(Tail(stations_raw))

\* p.get('name') or p.get('displayName') or 'TBD'
ParticipantName(p) ==
    IF TruthyStr(p.name) THEN Val(p.name)
    ELSE IF TruthyStr(p.displayName) THEN Val(p.displayName)
    ELSE "TBD"

\* participant_map built from the participants response (None: the call
\* failed or reported no success, the map stays empty)
RECURSIVE ParticipantsToMap(_)
ParticipantsToMap(ps) ==
    IF ps = <<>> THEN EmptyMap
    ELSE LET p == ps[Len(ps)]
         IN MapPut(ParticipantsToMap(SubSeq(ps, 1, Len(ps) - 1)),
                   p.id, [name |-> ParticipantName(p), seed |-> p.seed])

RefreshParticipantMap(participants_data) ==
    IF participants_data = None THEN EmptyMap
    ELSE ParticipantsToMap(Val(participants_data))

\* station_map[s.get('id')] = s.get('name')
RECURSIVE StationsToMap(_)
StationsToMap(ss) ==
    IF ss = <<>> THEN EmptyMap
    ELSE LET s == ss[Len(ss)]
         IN MapPut(StationsToMap(SubSeq(ss, 1, Len(ss) - 1)), s.id, Some(s.name))

RefreshStationMap(stations_data) ==
    IF stations_data = None THEN EmptyMap ELSE StationsToMap(Val(stations_data))

\* self._state.tournament_id = tournament_id
RefreshSetTournament(st, tournament_id) == [st EXCEPT !.tournament_id = tournament_id]

\* the stations step: self._parse_stations(...) when the call succeeded
RefreshSetStations(st, stations_data) ==
    IF stations_data = None THEN st
    ELSE [st EXCEPT !.stations = ParsedStations(Val(stations_data))]

\* mutant: the parsed matches are added to the ones already held
RefreshSetMatches_appends(st, matches_data, participant_map, station_map) ==
    IF matches_data = None THEN st
    ELSE [st EXCEPT !.matches = @ \o ParsedMatches(Val(matches_data), participant_map, station_map)]

\* the matches step: self._parse_matches(...) when the call succeeded
RefreshSetMatches(st, matches_data, participant_map, station_map) ==
    IF matches_data = None THEN st
    ELSE [st EXCEPT !.matches = ParsedMatches(Val(matches_data), participant_map, station_map)]

\* the stats step
RefreshSetStats(st, stats_data) ==
    IF stats_data = None THEN st
    ELSE [st EXCEPT !.total_matches = Val(stats_data).total,
                    !.completed_matches = Val(stats_data).completed]

\* self._state.last_update = time.time()
Stamp(st, t) == [st EXCEPT !.last_update = t]

\* mutant: with no active tournament the snapshot is left as it is
RefreshResult_keeps(st, resp, t) ==
    IF resp.status = None THEN [st |-> st, ok |-> FALSE]
    ELSE IF ~TruthyStr(Val(resp.status)) THEN [st |-> st, ok |-> TRUE]
    ELSE LET participant_map == RefreshParticipantMap(resp.participants)
             station_map == RefreshStationMap(resp.stations)
             s1 == RefreshSetTournament(st, Val(resp.status))
             s2 == RefreshSetStations(s1, resp.stations)
             s3 == RefreshSetMatches(s2, resp.matches, participant_map, station_map)
             s4 == RefreshSetStats(s3, resp.stats)
         IN [st |-> Stamp(s4, t), ok |-> TRUE]

\* refresh_state run by one thread with nothing interleaved: the state it
\* leaves and the value it returns.  resp holds the five responses.
RefreshResult(st, resp, t) ==
    IF resp.status = None THEN [st |-> st, ok |-> FALSE]
    ELSE IF ~TruthyStr(Val(resp.status)) THEN [st |-> EmptyState, ok |-> TRUE]
    ELSE LET participant_map == RefreshParticipantMap(resp.participants)
             station_map == RefreshStationMap(resp.stations)
             s1 == RefreshSetTournament(st, Val(resp.status))
             s2 == RefreshSetStations(s1, resp.stations)
             s3 == RefreshSetMatches(s2, resp.matches, participant_map, station_map)
             s4 == RefreshSetStats(s3, resp.stats)
         IN [st |-> Stamp(s4, t), ok |-> TRUE]

(***************************************************************************)
(* api_client.py : update_from_websocket_matches / _tournament             *)
(***************************************************************************)
\* participant_map from the names carried inline by the pushed matches
RECURSIVE InlineParticipants(_)
InlineParticipants(matches_raw) ==
    IF matches_raw = <<>> THEN EmptyMap
    ELSE LET m == matches_raw[Len(matches_raw)]
             m0 == InlineParticipants(SubSeq(matches_raw, 1, Len(matches_raw) - 1))
             m1 == IF TruthyStr(m.player1Name) /\ TruthyInt(m.player1Id)
                   THEN MapPut(m0, Val(m.player1Id),
                               [name |-> Val(m.player1Name), seed |-> m.player1Seed])
                   ELSE m0
         IN IF TruthyStr(m.player2Name) /\ TruthyInt(m.player2Id)
            THEN MapPut(m1, Val(m.player2Id),
                        [name |-> Val(m.player2Name), seed |-> m.player2Seed])
            ELSE m1

\* station_map from the station names carried inline
RECURSIVE InlineStations(_)
InlineStations(matches_raw) ==
    IF matches_raw = <<>> THEN EmptyMap
    ELSE LET m == matches_raw[Len(matches_raw)]
             m0 == InlineStations(SubSeq(matches_raw, 1, Len(matches_raw) - 1))
         IN IF TruthyStr(m.stationName) /\ TruthyStr(m.stationId)
            THEN MapPut(m0, Val(m.stationId), m.stationName)
            ELSE m0

\* participant_map from the players of the cached matches
RECURSIVE CachedParticipants(_)
CachedParticipants(matches) ==
    IF matches = <<>> THEN EmptyMap
    ELSE LET match == matches[Len(matches)]
             m0 == CachedParticipants(SubSeq(matches, 1, Len(matches) - 1))
             m1 == IF match.player1 # None
                   THEN MapPut(m0, Val(match.player1).id,
                               [name |-> Val(match.player1).name, seed |-> Val(match.player1).seed])
                   ELSE m0
         IN IF match.player2 # None
            THEN MapPut(m1, Val(match.player2).id,
                        [name |-> Val(match.player2).name, seed |-> Val(match.player2).seed])
            ELSE m1

\* station_map from the cached stations
RECURSIVE CachedStations(_)
CachedStations(stations) ==
    IF stations = <<>> THEN EmptyMap
    ELSE LET s == stations[Len(stations)]
         IN MapPut(CachedStations(SubSeq(stations, 1, Len(stations) - 1)), s.id, Some(s.name))

\* "if not participant_map": the cached names are used only when the payload
\* carries no inline name at all
PushParticipantMap(st, matches_raw) ==
    IF InlineParticipants(matches_raw) # EmptyMap THEN InlineParticipants(matches_raw)
    ELSE CachedParticipants(st.matches)

PushStationMap(st, matches_raw) ==
    IF InlineStations(matches_raw) # EmptyMap THEN InlineStations(matches_raw)
    ELSE CachedStations(st.stations)

\* "if 'stats' in data": absent keys keep the current counters
PushStats(st, stats) ==
    IF stats = None THEN st
    ELSE [st EXCEPT
            !.total_matches = IF Val(stats).total = None THEN @ ELSE Val(Val(stats).total),
            !.completed_matches = IF Val(stats).completed = None THEN @ ELSE Val(Val(stats).completed)]

\* update_from_websocket_matches: the state it leaves and the value it returns
PushMatchesResult(st, data, t) ==
    IF data.matches = None \/ Val(data.matches) = <<>> THEN [st |-> st, ok |-> FALSE]
    ELSE IF \E i \in DOMAIN Val(data.matches) : ~IsObject(Val(data.matches)[i])
    THEN [st |-> st, ok |-> FALSE]   \* m.get raises in the inline-name loop
    ELSE LET matches_raw == Val(data.matches)
             s1 == [st EXCEPT !.matches =
                       ParsedMatches(matches_raw, PushParticipantMap(st, matches_raw),
                                     PushStationMap(st, matches_raw))]
         IN [st |-> Stamp(PushStats(s1, data.stats), t), ok |-> TRUE]

\* mutant: a key that is absent resets its field
PushTournamentResult_resets(st, data, t) ==
    [st |-> Stamp([st EXCEPT
                     !.tournament_id = data.tournamentId,
                     !.tournament_name = IF data.name = None THEN "" ELSE Val(data.name),
                     !.game_name = IF data.gameName = None THEN "" ELSE Val(data.gameName),
                     !.state = IF data.state = None THEN "pending" ELSE Val(data.state)], t),
     ok |-> TRUE]

\* update_from_websocket_tournament: only the keys present are written
PushTournamentResult(st, data, t) ==
    LET s1 == IF data.tournamentId = None THEN st
              ELSE [st EXCEPT !.tournament_id = data.tournamentId]
        s2 == IF data.name = None THEN s1 ELSE [s1 EXCEPT !.tournament_name = Val(data.name)]
        s3 == IF data.gameName = None THEN s2 ELSE [s2 EXCEPT !.game_name = Val(data.gameName)]
        s4 == IF data.state = None THEN s3 ELSE [s3 EXCEPT !.state = Val(data.state)]
    IN [st |-> Stamp(s4, t), ok |-> TRUE]

\* get_match_by_id: the index of the first match with that id, 0 when none
get_match_index(st, match_id) ==
    IF \E i \in DOMAIN st.matches : st.matches[i].id = match_id
    THEN CHOOSE i \in DOMAIN st.matches :
            st.matches[i].id = match_id /\ \A j \in 1..(i - 1) : st.matches[j].id # match_id
    ELSE 0

\* get_underway_matches / get_open_matches (no station filter set)
get_underway_matches(st) == SelectSeq(st.matches, is_underway)
IsOpenOrUnderway(m) == m.state = "open" \/ is_underway(m)
get_open_matches(st) == SelectSeq(st.matches, IsOpenOrUnderway)

\* mutant: the loser is posted as the winner
ForfeitPost_swapped(st, match_id, loser_player_number) ==
    LET i == get_match_index(st, match_id)
    IN IF i = 0 \/ loser_player_number \notin {1, 2} THEN None
       ELSE Some([tournament_id |-> st.tournament_id, match_id |-> match_id,
                  winnerId |-> IF st.matches[i].player1 = None THEN 0
                               ELSE Val(st.matches[i].player1).id,
                  loserId |-> IF st.matches[i].player2 = None THEN 0
                              ELSE Val(st.matches[i].player2).id])

\* forfeit up to its POST: the request it sends, None when it returns False
\* before sending one
ForfeitPost(st, match_id, loser_player_number) ==
    LET i == get_match_index(st, match_id)
    IN IF i = 0 THEN None
       ELSE LET match == st.matches[i]
            IN IF loser_player_number \notin {1, 2}
                  \/ match.player1 = None \/ match.player2 = None
               THEN None
               ELSE IF ~TruthyStr(st.tournament_id) THEN None
               ELSE Some([tournament_id |-> st.tournament_id, match_id |-> match_id,
                          winnerId |-> IF loser_player_number = 1
                                       THEN Val(match.player2).id ELSE Val(match.player1).id,
                          loserId |-> IF loser_player_number = 1
                                      THEN Val(match.player1).id ELSE Val(match.player2).id])

\* what _api_post gives back: a body with success, a body without, None
PostAnswers == {"success", "refused", "none"}

\* forfeit's return value
ForfeitReturns(post, answer) == post # None /\ answer = "success"

(***************************************************************************)
(* api_client.py : the requests of the client                              *)
(*                                                                         *)
(* An answer of the service is the status code of the response (0: the     *)
(* request raised requests.RequestException) and the 'success' field of    *)
(* the JSON object it carries.  The client's configuration is whether an   *)
(* API token is set and whether a username and password are.               *)
(***************************************************************************)
HttpStatuses == {0, 200, 201, 401, 500}
HttpAnswers == [status : HttpStatuses, success : BOOLEAN]
ClientConfigs == [api_token : BOOLEAN, credentials : BOOLEAN]

Request(method, endpoint) == [method |-> method, endpoint |-> endpoint]

\* the outcome of a call: what it returns, the requests it sent in order,
\* the answers it has not used
Outcome(result, sent, rest) == [result |-> result, sent |-> sent, rest |-> rest]

\* verify_token
verify_token(cfg, answers) ==
    IF ~cfg.api_token THEN Outcome(FALSE, <<>>, answers)
    ELSE Outcome(Head(answers).status = 200 /\ Head(answers).success,
                 <<Request("GET", "/api/auth/verify-token")>>, Tail(answers))

\* login
login(cfg, answers) ==
    IF cfg.api_token THEN verify_token(cfg, answers)
    ELSE IF ~cfg.credentials THEN Outcome(FALSE, <<>>, answers)
    ELSE Outcome(Head(answers).status = 200 /\ Head(answers).success,
                 <<Request("POST", "/api/auth/login")>>, Tail(answers))

\* the status codes _api_get and _api_post take for a success
OkStatuses(method) == IF method = "GET" THEN {200} ELSE {200, 201}

\* one request and what the method returns for its answer when it does not
\* authenticate again: the JSON object, or None
SendOnce(method, endpoint, answers) ==
    Outcome(IF Head(answers).status \in OkStatuses(method)
            THEN Some([success |-> Head(answers).success]) ELSE None,
            <<Request(method, endpoint)>>, Tail(answers))

\* a slip: the 401 branch does not look at the token
ApiRequest_relogs(cfg, method, endpoint, retry_auth, answers) ==
    LET first == SendOnce(method, endpoint, answers)
    IN IF Head(answers).status = 401 /\ retry_auth
       THEN LET l == login(cfg, first.rest)
            IN IF l.result
               THEN LET again == SendOnce(method, endpoint, l.rest)
                    IN Outcome(again.result, first.sent \o l.sent \o again.sent, again.rest)
               ELSE Outcome(None, first.sent \o l.sent, l.rest)
       ELSE first

\* _api_get and _api_post: the call with retry_auth=False, made after a
\* login that succeeded, is SendOnce
ApiRequest(cfg, method, endpoint, retry_auth, answers) ==
    LET first == SendOnce(method, endpoint, answers)
    IN IF Head(answers).status = 401 /\ ~cfg.api_token /\ retry_auth
       THEN LET l == login(cfg, first.rest)
            IN IF l.result
               THEN LET again == SendOnce(method, endpoint, l.rest)
                    IN Outcome(again.result, first.sent \o l.sent \o again.sent, again.rest)
               ELSE Outcome(None, first.sent \o l.sent, l.rest)
       ELSE first

\* get_status
get_status(cfg, answers) == ApiRequest(cfg, "GET", "/api/status", TRUE, answers)

\* mark_underway, unmark_underway, update_score, declare_winner,
\* reopen_match, assign_station: no request without a tournament, else one
\* _api_post, and True when it gave an object whose success is true
PostAction(st, cfg, endpoint, answers) ==
    IF ~TruthyStr(st.tournament_id) THEN Outcome(FALSE, <<>>, answers)
    ELSE LET post == ApiRequest(cfg, "POST", endpoint, TRUE, answers)
         IN Outcome(post.result # None /\ Val(post.result).success, post.sent, post.rest)

(***************************************************************************)
(* Bounds and input domains                                                *)
(***************************************************************************)
MaxSortLen == 3      \* longest raw batch of the ordering check
MaxRound == 2        \* round numbers 1..MaxRound
MaxMatches == 2      \* match ids 1..MaxMatches of the push checks

MatchIds == 1..MaxMatches
Rounds == 1..MaxRound

PlayerName(k) ==
    CASE k = 1 -> "P1" [] k = 2 -> "P2" [] k = 3 -> "P3" [] k = 4 -> "P4"
      [] k = 5 -> "P5" [] k = 6 -> "P6" [] OTHER -> "Px"
StationId(i) == CASE i = 1 -> "s1" [] i = 2 -> "s2" [] i = 3 -> "s3" [] OTHER -> "sx"
StationName(i) == CASE i = 1 -> "TV 1" [] i = 2 -> "TV 2" [] i = 3 -> "TV 3" [] OTHER -> "TV x"

\* a raw match record as the service sends it
RawMatch(id, round, state, underwayAt, inline, scores_csv) ==
    [id |-> id, round |-> round, state |-> state,
     player1Id |-> Some(2 * id - 1), player2Id |-> Some(2 * id),
     player1Name |-> IF inline THEN Some(PlayerName(2 * id - 1)) ELSE None,
     player2Name |-> IF inline THEN Some(PlayerName(2 * id)) ELSE None,
     player1Seed |-> None, player2Seed |-> None,
     scores_csv |-> scores_csv, scores |-> None,
     stationId |-> Some(StationId(id)),
     stationName |-> IF inline THEN Some(StationName(id)) ELSE None,
     winnerId |-> None, underwayAt |-> underwayAt]

\* the (state, underwayAt) pairs of the ordering check
SortKinds ==
    { <<Some("open"), Some("t")>>, <<Some("open"), None>>, <<Some("pending"), None>>,
      <<Some("complete"), None>>, <<Some("underway"), None>> }

\* batches of the ordering check: any kinds and rounds, in any order
SortBatches ==
    UNION { { [j \in 1..k |-> RawMatch(j, f[j][2], f[j][1][1], f[j][1][2], FALSE, None)]
              : f \in [1..k -> SortKinds \X Rounds] } : k \in 0..MaxSortLen }

AllParticipants == [k \in 1..(2 * MaxMatches) |->
                      [id |-> k, name |-> Some(PlayerName(k)), displayName |-> None, seed |-> Some(k)]]
AllStations == [i \in MatchIds |-> [id |-> StationId(i), name |-> StationName(i), matchId |-> None]]

\* sequences of distinct match ids, in any order
IdOrders == UNION { { f \in [1..k -> MatchIds] : \A a, b \in 1..k : a # b => f[a] # f[b] }
                    : k \in 0..MaxMatches }

PushStates == {Some("open"), Some("complete")}

\* batches whose records carry, or do not carry, inline names
BatchesOver(inlines) ==
    UNION { { [j \in DOMAIN ids |-> RawMatch(ids[j], ids[j], g[j][1], None, g[j][2], None)]
              : g \in [DOMAIN ids -> PushStates \X inlines] } : ids \in IdOrders }

Response(status, participants, stations, matches, stats) ==
    [status |-> status, participants |-> participants, stations |-> stations,
     matches |-> matches, stats |-> stats]

SortResponses ==
    { Response(Some(Some("T1")), Some(AllParticipants), Some(AllStations), Some(b),
               Some([total |-> Len(b), completed |-> 0])) : b \in SortBatches }

PushSeedResponses ==
    { Response(Some(Some("T1")), ps, Some(AllStations), Some(b),
               Some([total |-> Len(b), completed |-> 0]))
      : ps \in {None, Some(AllParticipants)}, b \in BatchesOver({FALSE}) }

PushPayloads ==
    { [matches |-> Some(b), stats |-> None] : b \in BatchesOver({FALSE, TRUE}) }
    \cup { [matches |-> None, stats |-> None] }

(***************************************************************************)
(* State                                                                   *)
(***************************************************************************)
VARIABLES
    api_state,        \* TournamentAPIClient._state
    now,              \* time.time()
    feed,             \* what the service is about to answer / push
    pre_state,        \* history: _state before the last apply
    last,             \* history: the last operation, its input and result
    current_mode,     \* TournamentController.current_mode
    selected_match,   \* TournamentController.selected_match (None or a Match)
    sel_idx,          \* where the selected Match object sits in _state.matches
                      \* (0: the object is no longer in the snapshot)
    pending_scores,   \* TournamentController.pending_scores
    key_configs,      \* what the last render put on the keys
    calls,            \* background threads started by _run_api_action
    refresh_pending,  \* TournamentController._refresh_pending
    pc,               \* where each refreshing thread is in refresh_state
    locals,           \* tournament_id, participant_map, station_map of each
    key_pc,           \* where the key-event thread is
    running,          \* TournamentController._running
    last_user_action, \* TournamentController._last_user_action
    api_poll_interval,\* TournamentController._api_poll_interval
    last_api_poll,    \* TournamentController._last_api_poll
    ws_last_event,    \* TournamentController._ws_last_event
    ws_connected,     \* TournamentController._ws_connected
    ws_status,        \* TournamentWebSocket._status
    sio_connected,    \* socketio.Client.connected
    setup_pc,         \* where _setup_websocket is
    reconnect_attempts, \* TournamentWebSocket._reconnect_attempts
    ws_enabled,       \* config 'websocket_enabled'
    current_reconnect_delay, \* TournamentWebSocket._current_reconnect_delay
    hid_running,      \* StreamDeckHID._running
    run_pc            \* where TournamentController.run is

storeVars == <<api_state, now, feed, pre_state, last>>
viewVars == <<current_mode, selected_match, sel_idx, pending_scores, key_configs, calls>>
pullVars == <<refresh_pending, pc, locals, key_pc, running>>
timeVars == <<last_user_action, api_poll_interval, last_api_poll, ws_last_event>>
hidVars == <<hid_running, run_pc>>
wsVars == <<ws_connected, ws_status, sio_connected, setup_pc, reconnect_attempts, ws_enabled,
           current_reconnect_delay, hidVars>>
ctlVars == <<viewVars, pullVars, timeVars, wsVars>>
vars == <<storeVars, ctlVars>>

NoFeed == [refresh |-> None, push |-> None, pull |-> None]

\* controller.py : the timing constants.  The clock counts half seconds, the
\* sleep of one _poll_loop iteration ("time.sleep(0.5)").
TicksPerSecond == 2
PollIntervalActive == 2 * TicksPerSecond     \* _poll_interval_active = 2.0
PollIntervalIdle == 10 * TicksPerSecond      \* _poll_interval_idle = 10.0
ActiveTimeout == 30 * TicksPerSecond         \* _active_timeout = 30.0
PollFallbackInterval == 5 * TicksPerSecond   \* config.get('poll_fallback_interval', 5)
PollIntervalConfig == 5 * TicksPerSecond     \* config.get('poll_interval', 5)
ReconnectDelay == 1 * TicksPerSecond         \* config.get('websocket_reconnect_delay', 1)

Pullers == {"async", "poll"}
NoLocals == [tournament_id |-> None, participant_map |-> EmptyMap, station_map |-> EmptyMap]
NoKeys == [view |-> "none", match_ids |-> {}, toggle |-> "none", stations |-> <<>>]

\* TournamentController.__init__
InitController ==
    /\ current_mode = "main"
    /\ selected_match = None
    /\ sel_idx = 0
    /\ pending_scores = <<0, 0>>
    /\ key_configs = NoKeys
    /\ calls = {}
    /\ refresh_pending = FALSE
    /\ pc = [p \in Pullers |-> "idle"]
    /\ locals = [p \in Pullers |-> NoLocals]
    /\ key_pc = "idle"
    /\ running = FALSE
    /\ last_user_action = 0
    /\ api_poll_interval = PollIntervalIdle
    /\ last_api_poll = 0
    /\ ws_last_event = 0
    /\ ws_connected = FALSE
    /\ ws_status = "disconnected"
    /\ sio_connected = FALSE
    /\ setup_pc = "idle"
    /\ reconnect_attempts = 0
    /\ current_reconnect_delay = ReconnectDelay
    /\ ws_enabled \in BOOLEAN
    /\ hid_running = FALSE
    /\ run_pc = "init"

\* the state after construction (TournamentAPIClient.__init__)
InitStore ==
    /\ api_state = EmptyState
    /\ pre_state = EmptyState
    /\ last = [op |-> "init", ok |-> TRUE, data |-> None]
    /\ InitController

\* refresh_state, run with nothing interleaved, on the service's answers
ApplyRefresh ==
    /\ feed.refresh # None
    /\ LET res == RefreshResult(api_state, Val(feed.refresh), now)
       IN /\ api_state' = res.st
          /\ last' = [op |-> "refresh", ok |-> res.ok, data |-> feed.refresh]
    /\ pre_state' = api_state
    /\ feed' = [feed EXCEPT !.refresh = None]
    /\ UNCHANGED <<now, ctlVars>>

\* update_from_websocket_matches on the pushed payload
ApplyPushMatches ==
    /\ feed.refresh = None
    /\ feed.push # None
    /\ LET res == PushMatchesResult(api_state, Val(feed.push), now)
       IN /\ api_state' = res.st
          /\ last' = [op |-> "push", ok |-> res.ok, data |-> feed.push]
    /\ pre_state' = api_state
    /\ feed' = [feed EXCEPT !.push = None]
    /\ UNCHANGED <<now, ctlVars>>

\* ordering check: one full refresh of the empty snapshot
InitSort == InitStore /\ now = 1 /\ ws_enabled /\ feed \in { [NoFeed EXCEPT !.refresh = Some(r)] : r \in SortResponses }
NextSort == ApplyRefresh
SpecSort == InitSort /\ [][NextSort]_vars

\* push checks: the initial full refresh, then one incremental push
InitPush ==
    InitStore /\ now = 1 /\ ws_enabled /\ feed \in { [refresh |-> Some(r), push |-> Some(p), pull |-> None]
                            : r \in PushSeedResponses, p \in PushPayloads }
NextPush == ApplyRefresh \/ ApplyPushMatches
SpecPush == InitPush /\ [][NextPush]_vars

(***************************************************************************)
(* Claims about the store                                                  *)
(***************************************************************************)
PushedRaw == IF last.data # None /\ Val(last.data).matches # None
             THEN Val(Val(last.data).matches) ELSE <<>>
PushedIds == {PushedRaw[i].id : i \in DOMAIN PushedRaw}
PushApplied == last.op = "push" /\ last.ok

\* the name the snapshot before the push had for a player id, "TBD" when none
CachedName(pid) ==
    MapGet(MapGet(CachedParticipants(pre_state.matches), pid, EmptyMap), "name", "TBD")
CachedStationName(sid) == MapGet(CachedStations(pre_state.stations), sid, None)

\* the slot of the pushed record m shows the name in the current snapshot
SlotShows(m, slot, name) ==
    \E j \in DOMAIN api_state.matches :
        /\ api_state.matches[j].id = m.id
        /\ SlotName(IF slot = 1 THEN api_state.matches[j].player1
                    ELSE api_state.matches[j].player2) = name

NameKept(m, slot) ==
    LET pid == IF slot = 1 THEN m.player1Id ELSE m.player2Id
        inline == IF slot = 1 THEN m.player1Name ELSE m.player2Name
    IN (TruthyInt(pid) /\ ~TruthyStr(inline) /\ CachedName(Val(pid)) # "TBD")
       => SlotShows(m, slot, CachedName(Val(pid)))

StationKept(m) ==
    (TruthyStr(m.stationId) /\ ~TruthyStr(m.stationName)
       /\ CachedStationName(Val(m.stationId)) # None)
    => \E j \in DOMAIN api_state.matches :
          /\ api_state.matches[j].id = m.id
          /\ api_state.matches[j].station_name = CachedStationName(Val(m.stationId))

\* C4: after every incremental push, each player (and assigned station) of a
\* pushed match that has no inline name but had a name in the snapshot before
\* the push still shows that name, also when other matches of the payload
\* carry inline names.
C4_PushKeepsCachedNames ==
    PushApplied =>
        \A i \in DOMAIN PushedRaw :
            NameKept(PushedRaw[i], 1) /\ NameKept(PushedRaw[i], 2) /\ StationKept(PushedRaw[i])

\* C5: after every incremental push, every match of the snapshot before the
\* push whose id is not in the payload is still in the snapshot, unchanged.
C5_PushKeepsOtherMatches ==
    PushApplied =>
        \A i \in DOMAIN pre_state.matches :
            pre_state.matches[i].id \notin PushedIds
            => \E j \in DOMAIN api_state.matches : api_state.matches[j] = pre_state.matches[i]

\* the rank the ordering rule gives a match
ClaimRank(m) ==
    IF m.state = "underway" \/ (m.state = "open" /\ m.underway_at # None) THEN 0
    ELSE IF m.state = "open" THEN 1
    ELSE IF m.state = "pending" THEN 2
    ELSE IF m.state = "complete" THEN 3
    ELSE 4

OrderedByRule(ms) ==
    \A i, j \in DOMAIN ms :
        i < j => \/ ClaimRank(ms[i]) < ClaimRank(ms[j])
                 \/ (ClaimRank(ms[i]) = ClaimRank(ms[j]) /\ ms[i].round <= ms[j].round)

RefreshedBatch == IF last.op = "refresh" /\ last.data # None /\ Val(last.data).matches # None
                  THEN Val(Val(last.data).matches) ELSE <<>>

MaxScore == 1        \* scores 0..MaxScore
MaxCalls == 1        \* background action threads alive at once
MaxViewMatches == 1  \* match ids 1..MaxViewMatches of the controller checks

Take(s, n) == SubSeq(s, 1, IF Len(s) < n THEN Len(s) ELSE n)
IdsOf(ms) == {ms[i].id : i \in DOMAIN ms}
IsOpenNotUnderway(m) == IsOpenOrUnderway(m) /\ ~is_underway(m)

\* render_main_view: keys 0-1 select the first two underway matches, keys
\* 2-4 the first three open ones
render_main_view(st) ==
    [mode |-> "main",
     keys |-> [view |-> "main",
               match_ids |-> IdsOf(Take(get_underway_matches(st), 2))
                             \cup IdsOf(Take(SelectSeq(Take(get_open_matches(st), 10),
                                                       IsOpenNotUnderway), 3)),
               toggle |-> "none", stations |-> <<>>]]

\* render_match_control_view: key 8 toggles underway, keys 10-11 carry the
\* first two stations of the snapshot
render_match_control_view(st, sel) ==
    IF sel = None THEN render_main_view(st)
    ELSE [mode |-> "match_control",
          keys |-> [view |-> "match_control", match_ids |-> {},
                    toggle |-> IF is_underway(Val(sel)) THEN "unmark_underway"
                               ELSE "mark_underway",
                    stations |-> Take(st.stations, 2)]]

\* render_score_entry_view
render_score_entry_view(st, sel) ==
    IF sel = None THEN render_main_view(st)
    ELSE [mode |-> "score_entry",
          keys |-> [view |-> "score_entry", match_ids |-> {},
                    toggle |-> "none", stations |-> <<>>]]

\* self.api.get_match_by_id(match_id): the object and where it sits
Fetch(st, match_id) ==
    LET i == get_match_index(st, match_id)
    IN [sel |-> IF i = 0 THEN None ELSE Some(st.matches[i]), idx |-> i]

\* the view update at the end of do_refresh
AsyncRerender(st, mode, sel, idx, keys) ==
    IF mode = "main"
    THEN [view |-> render_main_view(st), sel |-> sel, idx |-> idx]
    ELSE IF mode = "match_control"
    THEN LET f == IF sel # None THEN Fetch(st, Val(sel).id) ELSE [sel |-> sel, idx |-> idx]
         IN [view |-> render_match_control_view(st, f.sel), sel |-> f.sel, idx |-> f.idx]
    ELSE [view |-> [mode |-> mode, keys |-> keys], sel |-> sel, idx |-> idx]

\* the view update of _poll_loop and of _on_ws_matches_update
PushRerender(st, mode, sel, idx, keys) ==
    IF mode = "main"
    THEN [view |-> render_main_view(st), sel |-> sel, idx |-> idx]
    ELSE IF mode = "match_control" /\ sel # None
    THEN LET f == Fetch(st, Val(sel).id)
         IN [view |-> render_match_control_view(st, f.sel), sel |-> f.sel, idx |-> f.idx]
    ELSE [view |-> [mode |-> mode, keys |-> keys], sel |-> sel, idx |-> idx]

\* a field write through self.selected_match: the object is also the one in
\* the snapshot while it still sits there
WriteThrough(st, idx, match) ==
    IF idx # 0 THEN [st EXCEPT !.matches[idx] = match] ELSE st

Call(op, match_id, args) == [op |-> op, match_id |-> match_id, args |-> args]

(***************************************************************************)
(* controller.py : key handlers.  A press and its release are one step:    *)
(* on_key_press(pressed=True) records the activity, the release runs the   *)
(* action of the key's KeyConfig.                                          *)
(***************************************************************************)
SetView(v) == current_mode' = v.mode /\ key_configs' = v.keys

\* on_key_press(key, True) then _handle_short_press finding the action on a
\* key of the rendered view
Pressed(views) ==
    /\ key_pc = "idle"
    /\ key_configs.view \in views
    /\ last_user_action' = now
    /\ api_poll_interval' = PollIntervalActive

Spawn(call) == Cardinality(calls) < MaxCalls /\ calls' = calls \cup {call}

KeyFrame == UNCHANGED <<now, feed, pre_state, last, pullVars, last_api_poll, ws_last_event, wsVars>>

\* _action_select_match
KeySelectMatch ==
    /\ Pressed({"main"})
    /\ \E match_id \in key_configs.match_ids :
         LET f == Fetch(api_state, match_id)
         IN /\ selected_match' = f.sel
            /\ sel_idx' = f.idx
            /\ IF f.sel # None
               THEN /\ pending_scores' = <<Val(f.sel).player1_score, Val(f.sel).player2_score>>
                    /\ SetView(render_match_control_view(api_state, f.sel))
               ELSE UNCHANGED <<pending_scores, current_mode, key_configs>>
    /\ UNCHANGED <<api_state, calls>>
    /\ KeyFrame

\* "home": self.selected_match = None; render_main_view()
KeyHome ==
    /\ Pressed({"main", "match_control", "score_entry"})
    /\ selected_match' = None
    /\ sel_idx' = 0
    /\ SetView(render_main_view(api_state))
    /\ UNCHANGED <<api_state, pending_scores, calls>>
    /\ KeyFrame

\* "back_to_main": render_main_view()
KeyBackToMain ==
    /\ Pressed({"match_control"})
    /\ SetView(render_main_view(api_state))
    /\ UNCHANGED <<api_state, selected_match, sel_idx, pending_scores, calls>>
    /\ KeyFrame

\* "back_to_match" and "cancel_score": render_match_control_view()
KeyBackToMatch ==
    /\ Pressed({"score_entry"})
    /\ SetView(render_match_control_view(api_state, selected_match))
    /\ UNCHANGED <<api_state, selected_match, sel_idx, pending_scores, calls>>
    /\ KeyFrame

\* a slip: the view is opened on the buffer as it was left
KeyShowScoreEntry_keeps ==
    /\ Pressed({"match_control"})
    /\ IF selected_match # None
       THEN SetView(render_score_entry_view(api_state, selected_match))
       ELSE UNCHANGED <<current_mode, key_configs>>
    /\ UNCHANGED <<api_state, selected_match, sel_idx, pending_scores, calls>>
    /\ KeyFrame

\* _action_show_score_entry
KeyShowScoreEntry ==
    /\ Pressed({"match_control"})
    /\ IF selected_match # None
       THEN /\ pending_scores' = <<Val(selected_match).player1_score,
                                   Val(selected_match).player2_score>>
            /\ SetView(render_score_entry_view(api_state, selected_match))
       ELSE UNCHANGED <<pending_scores, current_mode, key_configs>>
    /\ UNCHANGED <<api_state, selected_match, sel_idx, calls>>
    /\ KeyFrame

(***************************************************************************)
(* controller.py : optimistic actions.  Each writes the selected Match     *)
(* object, renders, and starts the remote call on a background thread.     *)
(***************************************************************************)
\* the write, the render of the match view and the thread start
Optimistic(match, call) ==
    /\ selected_match' = Some(match)
    /\ api_state' = WriteThrough(api_state, sel_idx, match)
    /\ SetView(render_match_control_view(api_state', Some(match)))
    /\ Spawn(call)
    /\ UNCHANGED sel_idx

NoSelection == UNCHANGED <<api_state, selected_match, sel_idx, current_mode, key_configs, calls>>

\* mutant: the write leaves the timestamp unset
MarkedUnderway_unset(match) == [match EXCEPT !.underway_at = None]

\* self.selected_match.underway_at = "pending"
MarkedUnderway(match) == [match EXCEPT !.underway_at = Some("pending")]

\* _action_mark_underway
KeyMarkUnderway ==
    /\ Pressed({"match_control"})
    /\ key_configs.toggle = "mark_underway"
    /\ IF selected_match # None
       THEN Optimistic(MarkedUnderway(Val(selected_match)),
                       Call("mark_underway", Val(selected_match).id, <<>>))
       ELSE NoSelection
    /\ UNCHANGED pending_scores
    /\ KeyFrame

\* _action_unmark_underway
KeyUnmarkUnderway ==
    /\ Pressed({"match_control"})
    /\ key_configs.toggle = "unmark_underway"
    /\ IF selected_match # None
       THEN Optimistic([Val(selected_match) EXCEPT !.underway_at = None],
                       Call("unmark_underway", Val(selected_match).id, <<>>))
       ELSE NoSelection
    /\ UNCHANGED pending_scores
    /\ KeyFrame

\* _action_quick_winner(player_number)
KeyQuickWinner ==
    /\ Pressed({"match_control"})
    /\ \E player_number \in {1, 2} :
         IF selected_match # None
         THEN /\ selected_match' = None
              /\ sel_idx' = 0
              /\ SetView(render_main_view(api_state))
              /\ Spawn(Call("quick_winner", Val(selected_match).id, <<player_number>>))
              /\ UNCHANGED api_state
         ELSE NoSelection
    /\ UNCHANGED pending_scores
    /\ KeyFrame

\* _action_reopen_match
KeyReopenMatch ==
    /\ Pressed({"match_control"})
    /\ IF selected_match # None
       THEN /\ SetView(render_match_control_view(api_state, selected_match))
            /\ Spawn(Call("reopen_match", Val(selected_match).id, <<>>))
            /\ UNCHANGED <<api_state, selected_match, sel_idx>>
       ELSE NoSelection
    /\ UNCHANGED pending_scores
    /\ KeyFrame

\* _action_quick_score(player_idx)
KeyQuickScore ==
    /\ Pressed({"match_control"})
    /\ \E player_idx \in {0, 1} :
         IF selected_match # None
         THEN LET p1_score == Val(selected_match).player1_score + (IF player_idx = 0 THEN 1 ELSE 0)
                  p2_score == Val(selected_match).player2_score + (IF player_idx = 0 THEN 0 ELSE 1)
              IN /\ p1_score <= MaxScore /\ p2_score <= MaxScore
                 /\ Optimistic([Val(selected_match) EXCEPT !.player1_score = p1_score,
                                                           !.player2_score = p2_score],
                               Call("update_score", Val(selected_match).id, <<p1_score, p2_score>>))
         ELSE NoSelection
    /\ UNCHANGED pending_scores
    /\ KeyFrame

\* _action_assign_station(station_id, station_name), from the key's data
KeyAssignStation ==
    /\ Pressed({"match_control"})
    /\ \E k \in DOMAIN key_configs.stations :
         LET station == key_configs.stations[k]
         IN IF selected_match # None
            THEN IF Val(selected_match).station_name = Some(station.name)
                 THEN Optimistic([Val(selected_match) EXCEPT !.station_id = None,
                                                             !.station_name = None],
                                 Call("assign_station", Val(selected_match).id, <<None>>))
                 ELSE Optimistic([Val(selected_match) EXCEPT !.station_id = Some(station.id),
                                                             !.station_name = Some(station.name)],
                                 Call("assign_station", Val(selected_match).id, <<Some(station.id)>>))
            ELSE NoSelection
    /\ UNCHANGED pending_scores
    /\ KeyFrame

\* a slip: the new value is not cut off at 0
KeyAdjustScore_unclamped ==
    /\ Pressed({"score_entry"})
    /\ \E player_idx \in {1, 2}, delta \in {-1, 1} :
         LET v == pending_scores[player_idx] + delta
         IN /\ v <= MaxScore
            /\ pending_scores' = [pending_scores EXCEPT ![player_idx] = v]
    /\ SetView(render_score_entry_view(api_state, selected_match))
    /\ UNCHANGED <<api_state, selected_match, sel_idx, calls>>
    /\ KeyFrame

\* _action_adjust_score(player_idx, delta)
KeyAdjustScore ==
    /\ Pressed({"score_entry"})
    /\ \E player_idx \in {1, 2}, delta \in {-1, 1} :
         LET v == pending_scores[player_idx] + delta
         IN /\ v <= MaxScore
            /\ pending_scores' = [pending_scores EXCEPT ![player_idx] = IF v > 0 THEN v ELSE 0]
    /\ SetView(render_score_entry_view(api_state, selected_match))
    /\ UNCHANGED <<api_state, selected_match, sel_idx, calls>>
    /\ KeyFrame

\* "clear_scores"
KeyClearScores ==
    /\ Pressed({"score_entry"})
    /\ pending_scores' = <<0, 0>>
    /\ SetView(render_score_entry_view(api_state, selected_match))
    /\ UNCHANGED <<api_state, selected_match, sel_idx, calls>>
    /\ KeyFrame

\* _action_submit_score
KeySubmitScore ==
    /\ Pressed({"score_entry"})
    /\ IF selected_match # None
       THEN Optimistic([Val(selected_match) EXCEPT !.player1_score = pending_scores[1],
                                                   !.player2_score = pending_scores[2]],
                       Call("update_score", Val(selected_match).id, pending_scores))
       ELSE NoSelection
    /\ UNCHANGED pending_scores
    /\ KeyFrame

\* the winner_id _action_declare_winner computes (None: no such player)
WinnerId(match, scores) ==
    LET player == IF scores[1] > scores[2] THEN match.player1 ELSE match.player2
    IN IF player # None THEN Some(Val(player).id) ELSE None

\* mutant: a tie is not rejected (the else branch takes player 2)
DeclareWinner_ties ==
    IF /\ selected_match # None
       /\ TruthyInt(WinnerId(Val(selected_match), pending_scores))
    THEN /\ selected_match' = None
         /\ sel_idx' = 0
         /\ SetView(render_main_view(api_state))
         /\ Spawn(Call("declare_winner", Val(selected_match).id,
                       <<Val(WinnerId(Val(selected_match), pending_scores)),
                         pending_scores[1], pending_scores[2]>>))
         /\ UNCHANGED api_state
    ELSE NoSelection

\* mutant: the call is started and the score-entry view stays
DeclareWinner_stays ==
    IF /\ selected_match # None
       /\ pending_scores[1] # pending_scores[2]
       /\ TruthyInt(WinnerId(Val(selected_match), pending_scores))
    THEN /\ Spawn(Call("declare_winner", Val(selected_match).id,
                       <<Val(WinnerId(Val(selected_match), pending_scores)),
                         pending_scores[1], pending_scores[2]>>))
         /\ UNCHANGED <<api_state, selected_match, sel_idx, current_mode, key_configs>>
    ELSE NoSelection

\* _action_declare_winner
DeclareWinner ==
    IF /\ selected_match # None
       /\ pending_scores[1] # pending_scores[2]
       /\ TruthyInt(WinnerId(Val(selected_match), pending_scores))
    THEN /\ selected_match' = None
         /\ sel_idx' = 0
         /\ SetView(render_main_view(api_state))
         /\ Spawn(Call("declare_winner", Val(selected_match).id,
                       <<Val(WinnerId(Val(selected_match), pending_scores)),
                         pending_scores[1], pending_scores[2]>>))
         /\ UNCHANGED api_state
    ELSE NoSelection

\* "declare_winner"
KeyDeclareWinner ==
    /\ Pressed({"score_entry"})
    /\ DeclareWinner
    /\ UNCHANGED pending_scores
    /\ KeyFrame

\* "declare_winner", with the press noted in the history
KeyDeclareWinnerNoted ==
    /\ Pressed({"score_entry"})
    /\ DeclareWinner
    /\ UNCHANGED pending_scores
    /\ last' = [op |-> "declare_winner", ok |-> calls' # calls, data |-> None]
    /\ UNCHANGED <<now, feed, pre_state, pullVars, last_api_poll, ws_last_event, wsVars>>

\* how api_func(*args) can end in do_action: it returns True, returns False
\* (no tournament id, no answer, success missing), or raises
CallResults == {"true", "false", "raises"}

\* mutant: the completion of a call queues a refresh
CallReturns_refreshes ==
    /\ \E c \in calls : calls' = calls \ {c}
    /\ refresh_pending' = TRUE
    /\ pc' = [pc EXCEPT !["async"] = "status"]
    /\ UNCHANGED <<storeVars, current_mode, selected_match, sel_idx, pending_scores,
                   key_configs, locals, key_pc, running, timeVars, wsVars>>

\* do_action: the remote call ends; every caller passes callback None, so
\* "if result and callback" runs nothing, and an exception is only printed
CallReturns ==
    /\ \E c \in calls, result \in CallResults : calls' = calls \ {c}
    /\ UNCHANGED <<storeVars, current_mode, selected_match, sel_idx, pending_scores,
                   key_configs, pullVars, timeVars, wsVars>>

\* run(): after the initial refresh, render_main_view() and start polling
StartRun ==
    /\ ~running /\ run_pc = "init"
    /\ feed.refresh = None
    /\ ws_enabled => setup_pc = "done"
    /\ SetView(render_main_view(api_state))
    /\ running' = TRUE
    /\ run_pc' = "started"
    /\ api_poll_interval' = PollIntervalConfig
    /\ UNCHANGED <<storeVars, selected_match, sel_idx, pending_scores, calls,
                   refresh_pending, pc, locals, key_pc,
                   last_user_action, last_api_poll, ws_last_event,
                   ws_connected, ws_status, sio_connected, setup_pc, reconnect_attempts,
                   ws_enabled, current_reconnect_delay, hid_running>>

(***************************************************************************)
(* websocket_client.py : connection status; controller.py : _setup_websocket*)
(***************************************************************************)
MaxAttempts == 2     \* reconnection attempt numbers 1..MaxAttempts

WsFrame == UNCHANGED <<storeVars, selected_match, sel_idx, pending_scores, calls,
                       pullVars, timeVars>>

\* _set_status(status) with _on_ws_connection_change as the callback, both
\* under TournamentWebSocket._lock
SetStatus(status) ==
    IF ws_status # status
    THEN /\ ws_status' = status
         /\ ws_connected' = (status = "connected")
         /\ IF current_mode = "main"
            THEN SetView(render_main_view(api_state))
            ELSE UNCHANGED <<current_mode, key_configs>>
    ELSE UNCHANGED <<ws_status, ws_connected, current_mode, key_configs>>

\* mutant: a connect leaves the attempt counter where it was
WsOnConnect_keeps ==
    /\ setup_pc # "idle" /\ ~sio_connected
    /\ sio_connected' = TRUE
    /\ SetStatus("connected")
    /\ UNCHANGED <<reconnect_attempts, setup_pc, ws_enabled, current_reconnect_delay, hidVars>>
    /\ WsFrame

\* the "connect" event
WsOnConnect ==
    /\ setup_pc # "idle" /\ ~sio_connected
    /\ sio_connected' = TRUE
    /\ SetStatus("connected")
    /\ reconnect_attempts' = 0
    /\ current_reconnect_delay' = ReconnectDelay
    /\ UNCHANGED <<setup_pc, ws_enabled, hidVars>>
    /\ WsFrame

\* the "disconnect" event
WsOnDisconnect ==
    /\ sio_connected
    /\ sio_connected' = FALSE
    /\ SetStatus("disconnected")
    /\ UNCHANGED <<setup_pc, reconnect_attempts, ws_enabled, current_reconnect_delay, hidVars>>
    /\ WsFrame

\* the "connect_error" event
WsOnConnectError ==
    /\ setup_pc # "idle" /\ ~sio_connected
    /\ SetStatus("error")
    /\ UNCHANGED <<sio_connected, setup_pc, reconnect_attempts, ws_enabled, current_reconnect_delay, hidVars>>
    /\ WsFrame

\* the "reconnect_attempt" event; the library numbers the attempts since the
\* last successful connection upwards from 1
WsOnReconnectAttempt ==
    /\ setup_pc # "idle" /\ ~sio_connected
    /\ \E attempt \in (reconnect_attempts + 1)..MaxAttempts : reconnect_attempts' = attempt
    /\ SetStatus("reconnecting")
    /\ UNCHANGED <<sio_connected, setup_pc, ws_enabled, current_reconnect_delay, hidVars>>
    /\ WsFrame

\* the "reconnect" event
WsOnReconnect ==
    /\ sio_connected
    /\ SetStatus("connected")
    /\ reconnect_attempts' = 0
    /\ UNCHANGED <<sio_connected, setup_pc, ws_enabled, current_reconnect_delay, hidVars>>
    /\ WsFrame

\* _setup_websocket up to self._websocket.connect(): _set_status(CONNECTING)
\* and the blocking self._sio.connect(...)
SetupConnect ==
    /\ ws_enabled /\ setup_pc = "idle" /\ feed.refresh = None /\ ~running
    /\ SetStatus("connecting")
    /\ setup_pc' = "connecting"
    /\ UNCHANGED <<sio_connected, reconnect_attempts, ws_enabled, current_reconnect_delay, hidVars>>
    /\ WsFrame

\* self._sio.connect(...) returns: connect() returns True, time.sleep(0.5)
SetupConnectReturns ==
    /\ setup_pc = "connecting" /\ sio_connected
    /\ setup_pc' = "sleeping"
    /\ UNCHANGED <<ws_connected, ws_status, sio_connected, reconnect_attempts,
                   ws_enabled, current_reconnect_delay, hidVars, current_mode, key_configs>>
    /\ WsFrame

\* self._sio.connect(...) raises: _set_status(ERROR), connect() returns False
SetupConnectFails ==
    /\ setup_pc = "connecting" /\ ~sio_connected
    /\ SetStatus("error")
    /\ setup_pc' = "done"
    /\ UNCHANGED <<sio_connected, reconnect_attempts, ws_enabled, current_reconnect_delay, hidVars>>
    /\ WsFrame

\* "if self._websocket.is_connected():"
SetupCheck ==
    /\ setup_pc = "sleeping"
    /\ setup_pc' = IF sio_connected /\ ws_status = "connected" THEN "set" ELSE "done"
    /\ UNCHANGED <<ws_connected, ws_status, sio_connected, reconnect_attempts,
                   ws_enabled, current_reconnect_delay, hidVars, current_mode, key_configs>>
    /\ WsFrame

\* "self._ws_connected = True"
SetupSet ==
    /\ setup_pc = "set"
    /\ ws_connected' = TRUE
    /\ setup_pc' = "done"
    /\ UNCHANGED <<ws_status, sio_connected, reconnect_attempts, ws_enabled, current_reconnect_delay, hidVars,
                   current_mode, key_configs>>
    /\ WsFrame

(***************************************************************************)
(* controller.py : refreshing threads.  "async" is do_refresh of           *)
(* _queue_async_refresh, "poll" is _poll_loop.  refresh_state waits for a  *)
(* response before each of its writes; each step below is one response and *)
(* the writes that follow it.                                              *)
(***************************************************************************)
SetPc(p, v) == pc' = [pc EXCEPT ![p] = v]
PullFrame == UNCHANGED <<now, feed, last, current_mode, selected_match,
                         pending_scores, key_configs, calls, refresh_pending, key_pc,
                         running, timeVars, wsVars>>

\* get_status answers
PullStatus(p, status) ==
    /\ pc[p] = "status"
    /\ IF status = None
       THEN /\ SetPc(p, "render")
            /\ UNCHANGED <<api_state, sel_idx, locals>>
       ELSE IF ~TruthyStr(Val(status))
       THEN /\ api_state' = EmptyState
            /\ sel_idx' = 0
            /\ SetPc(p, "render")
            /\ UNCHANGED locals
       ELSE /\ api_state' = RefreshSetTournament(api_state, Val(status))
            /\ locals' = [locals EXCEPT ![p] = [NoLocals EXCEPT !.tournament_id = Val(status)]]
            /\ SetPc(p, "participants")
            /\ UNCHANGED sel_idx
    /\ PullFrame

\* the participants answer: participant_map
PullParticipants(p, participants_data) ==
    /\ pc[p] = "participants"
    /\ locals' = [locals EXCEPT ![p].participant_map = RefreshParticipantMap(participants_data)]
    /\ SetPc(p, "stations")
    /\ UNCHANGED <<api_state, sel_idx>>
    /\ PullFrame

\* the stations answer: station_map and _parse_stations
PullStations(p, stations_data) ==
    /\ pc[p] = "stations"
    /\ locals' = [locals EXCEPT ![p].station_map = RefreshStationMap(stations_data)]
    /\ api_state' = RefreshSetStations(api_state, stations_data)
    /\ SetPc(p, "matches")
    /\ UNCHANGED sel_idx
    /\ PullFrame

\* the matches answer: _parse_matches replaces the list
PullMatches(p, matches_data) ==
    /\ pc[p] = "matches"
    /\ api_state' = RefreshSetMatches(api_state, matches_data,
                                      locals[p].participant_map, locals[p].station_map)
    /\ sel_idx' = IF matches_data = None THEN sel_idx ELSE 0
    /\ SetPc(p, "stats")
    /\ UNCHANGED locals
    /\ PullFrame

\* the stats answer, last_update, return True
PullStats(p, stats_data) ==
    /\ pc[p] = "stats"
    /\ api_state' = Stamp(RefreshSetStats(api_state, stats_data), now)
    /\ SetPc(p, "render")
    /\ UNCHANGED <<sel_idx, locals>>
    /\ PullFrame

\* the end of do_refresh: update the view, clear _refresh_pending
AsyncRender ==
    /\ pc["async"] = "render"
    /\ LET r == AsyncRerender(api_state, current_mode, selected_match, sel_idx, key_configs)
       IN /\ SetView(r.view)
          /\ selected_match' = r.sel
          /\ sel_idx' = r.idx
    /\ refresh_pending' = FALSE
    /\ pc' = [pc EXCEPT !["async"] = "idle"]
    /\ locals' = [locals EXCEPT !["async"] = NoLocals]
    /\ UNCHANGED <<storeVars, pending_scores, calls, key_pc, running, timeVars, wsVars>>

\* _poll_loop after refresh_state: _last_api_poll = now, update the view
PollRender ==
    /\ pc["poll"] = "render"
    /\ last_api_poll' = now
    /\ LET r == PushRerender(api_state, current_mode, selected_match, sel_idx, key_configs)
       IN /\ SetView(r.view)
          /\ selected_match' = r.sel
          /\ sel_idx' = r.idx
    /\ pc' = [pc EXCEPT !["poll"] = "idle"]
    /\ locals' = [locals EXCEPT !["poll"] = NoLocals]
    /\ UNCHANGED <<storeVars, pending_scores, calls, refresh_pending, key_pc, running,
                   last_user_action, api_poll_interval, ws_last_event, wsVars>>

\* _queue_async_refresh
QueueAsyncRefresh ==
    IF refresh_pending
    THEN UNCHANGED <<refresh_pending, pc>>
    ELSE refresh_pending' = TRUE /\ pc' = [pc EXCEPT !["async"] = "status"]

\* "refresh": _action_refresh
KeyRefresh ==
    /\ Pressed({"main"})
    /\ QueueAsyncRefresh
    /\ UNCHANGED <<storeVars, viewVars, locals, key_pc, running,
                   last_api_poll, ws_last_event, wsVars>>

\* _poll_loop, an iteration that finds the fallback pull due: it calls
\* self.api.refresh_state() itself
PollStart ==
    /\ running /\ ~ws_connected
    /\ pc["poll"] = "idle"
    /\ pc' = [pc EXCEPT !["poll"] = "status"]
    /\ UNCHANGED <<storeVars, viewVars, refresh_pending, locals, key_pc, running,
                   timeVars, wsVars>>

\* _handle_long_press on a match key: self.api.mark_underway(match_id) is
\* called on the key-event thread
KeyLongPress ==
    /\ Pressed({"main"})
    /\ key_configs.match_ids # {}
    /\ key_pc' = "long_press"
    /\ UNCHANGED <<storeVars, viewVars, refresh_pending, pc, locals,
                   running, last_api_poll, ws_last_event, wsVars>>

\* the call returns, then _action_refresh()
KeyLongPressReturns ==
    /\ key_pc = "long_press"
    /\ key_pc' = "idle"
    /\ QueueAsyncRefresh
    /\ UNCHANGED <<storeVars, viewVars, locals, running, timeVars, wsVars>>

(***************************************************************************)
(* controller.py : push handlers (socket.io thread)                        *)
(***************************************************************************)
\* a slip: the view is rendered again whatever the apply returned
WsMatchesUpdate_rerenders(data) ==
    /\ sio_connected
    /\ ws_last_event' = now
    /\ \E res \in {PushMatchesResult(api_state, data, now)} :
          /\ api_state' = res.st
          /\ \E r \in {PushRerender(res.st, current_mode, selected_match, 0, key_configs)} :
                /\ SetView(r.view)
                /\ selected_match' = r.sel
                /\ sel_idx' = r.idx
    /\ UNCHANGED <<now, pre_state, pending_scores, calls, pullVars,
                   last_user_action, api_poll_interval, last_api_poll, wsVars>>

\* _on_ws_matches_update(data), the program's side
WsMatchesUpdate(data) ==
    /\ sio_connected
    /\ ws_last_event' = now
    /\ \E res \in {PushMatchesResult(api_state, data, now)} :
          /\ api_state' = res.st
          /\ IF res.ok
             THEN \E r \in {PushRerender(res.st, current_mode, selected_match, 0,
                                          key_configs)} :
                     /\ SetView(r.view)
                     /\ selected_match' = r.sel
                     /\ sel_idx' = r.idx
             ELSE UNCHANGED <<current_mode, key_configs, selected_match, sel_idx>>
    /\ UNCHANGED <<now, pre_state, pending_scores, calls, pullVars,
                   last_user_action, api_poll_interval, last_api_poll, wsVars>>

\* a matches:update event the service sends of its own accord
OnWsMatchesUpdate(data) == WsMatchesUpdate(data) /\ UNCHANGED <<feed, last>>

\* _on_ws_ticker_message(data)
OnWsTickerMessage ==
    /\ sio_connected
    /\ ws_last_event' = now
    /\ UNCHANGED <<storeVars, viewVars, pullVars, last_user_action, api_poll_interval,
                   last_api_poll, wsVars>>

\* _on_ws_tournament_update(data)
OnWsTournamentUpdate(data) ==
    /\ sio_connected
    /\ ws_last_event' = now
    /\ LET res == PushTournamentResult(api_state, data, now)
       IN /\ api_state' = res.st
          /\ IF res.ok /\ current_mode = "main"
             THEN SetView(render_main_view(res.st))
             ELSE UNCHANGED <<current_mode, key_configs>>
    /\ UNCHANGED <<now, feed, pre_state, last, selected_match, sel_idx, pending_scores,
                   calls, pullVars,
                   last_user_action, api_poll_interval, last_api_poll, wsVars>>

(***************************************************************************)
(* The controller with every handler run to completion before the next     *)
(* one starts (no thread is preempted inside a handler).                   *)
(***************************************************************************)
ViewMatchIds == 1..MaxViewMatches
ViewStates == {Some("open"), Some("complete")}

\* batches of the controller checks: ids ascending, open or complete
ViewBatches ==
    UNION { { [j \in 1..k |-> RawMatch(ids[j], ids[j], g[j], None, FALSE, None)]
              : g \in [1..k -> ViewStates] }
            : k \in 0..MaxViewMatches,
              ids \in { f \in [1..MaxViewMatches -> ViewMatchIds] :
                          \A a, b \in 1..MaxViewMatches : a < b => f[a] < f[b] } }

ViewStations == SubSeq(AllStations, 1, MaxViewMatches)

ViewResponses ==
    { Response(Some(Some("T1")), Some(AllParticipants), Some(ViewStations), Some(b),
               Some([total |-> Len(b), completed |-> 0])) : b \in ViewBatches }
    \cup { Response(None, None, None, None, None),
           Response(Some(None), None, None, None, None) }

ViewPayloads == { [matches |-> Some(b), stats |-> None] : b \in ViewBatches }

\* refresh_state replaced the match objects
Replaced(resp) ==
    resp.status # None /\ (~TruthyStr(Val(resp.status)) \/ resp.matches # None)

\* do_refresh from start to end
AsyncRefreshAtomic ==
    /\ pc["async"] = "status"
    /\ \E resp \in ViewResponses :
         LET res == RefreshResult(api_state, resp, now)
             r == AsyncRerender(res.st, current_mode, selected_match,
                                IF Replaced(resp) THEN 0 ELSE sel_idx, key_configs)
         IN /\ api_state' = res.st
            /\ SetView(r.view)
            /\ selected_match' = r.sel
            /\ sel_idx' = r.idx
    /\ refresh_pending' = FALSE
    /\ pc' = [pc EXCEPT !["async"] = "idle"]
    /\ UNCHANGED <<now, feed, pre_state, last, pending_scores, calls, locals, key_pc, running, timeVars, wsVars>>

\* one _poll_loop iteration that pulls, from start to end, on the answers resp
PollPullOn(resp) ==
    /\ running /\ ~ws_connected
    /\ pc["poll"] = "idle"
    /\ LET res == RefreshResult(api_state, resp, now)
           r == PushRerender(res.st, current_mode, selected_match,
                             IF Replaced(resp) THEN 0 ELSE sel_idx, key_configs)
       IN /\ api_state' = res.st
          /\ SetView(r.view)
          /\ selected_match' = r.sel
          /\ sel_idx' = r.idx
    /\ last_api_poll' = now
    /\ UNCHANGED <<now, feed, pre_state, last, pending_scores, calls, pullVars, last_user_action,
                   api_poll_interval, ws_last_event, wsVars>>

PollPullAtomic == \E resp \in ViewResponses : PollPullOn(resp)

KeyActions ==
    \/ KeySelectMatch \/ KeyHome \/ KeyBackToMain \/ KeyBackToMatch \/ KeyShowScoreEntry
    \/ KeyMarkUnderway \/ KeyUnmarkUnderway \/ KeyQuickWinner \/ KeyReopenMatch
    \/ KeyQuickScore \/ KeyAssignStation \/ KeyAdjustScore \/ KeyClearScores
    \/ KeySubmitScore \/ KeyDeclareWinner \/ KeyRefresh

InitView ==
    /\ InitStore
    /\ now = 1
    /\ ~ws_enabled
    /\ feed \in { [NoFeed EXCEPT !.refresh = Some(r)] : r \in ViewResponses }

NextView ==
    \/ ApplyRefresh \/ StartRun
    \/ KeyActions \/ CallReturns
    \/ AsyncRefreshAtomic \/ PollPullAtomic

SpecView == InitView /\ [][NextView]_vars

(***************************************************************************)
(* The controller with its threads interleaved at every network wait of    *)
(* refresh_state.  Whether the fallback pull is due is left open here      *)
(* (PollStart); the timing of the loop is in SpecPoll.                     *)
(***************************************************************************)
PullStatuses == {None, Some(None), Some(Some("T1"))}
PullMatchAnswers == {None} \cup {Some(b) : b \in ViewBatches}

\* one step of refresh_state in thread p, on any answer of the service
PullerStep(p) ==
    /\ UNCHANGED pre_state
    /\ \/ \E status \in PullStatuses : PullStatus(p, status)
       \/ PullParticipants(p, Some(AllParticipants))
       \/ PullStations(p, Some(ViewStations))
       \/ \E matches_data \in PullMatchAnswers : PullMatches(p, matches_data)
       \/ PullStats(p, Some([total |-> Len(api_state.matches), completed |-> 0]))

Init ==
    /\ InitStore
    /\ now = 1
    /\ ws_enabled
    /\ feed \in { [NoFeed EXCEPT !.refresh = Some(r)] : r \in ViewResponses }

Next ==
    \/ ApplyRefresh
    \/ SetupConnect \/ SetupConnectReturns \/ SetupConnectFails \/ SetupCheck \/ SetupSet
    \/ WsOnConnect \/ WsOnDisconnect
    \/ StartRun
    \/ KeyRefresh \/ KeyLongPress \/ KeyLongPressReturns
    \/ PollStart \/ PollRender \/ AsyncRender
    \/ \E p \in Pullers : PullerStep(p)
    \/ \E data \in ViewPayloads : OnWsMatchesUpdate(data)
    \/ OnWsTournamentUpdate([tournamentId |-> Some("T1"), name |-> Some("Cup"),
                             gameName |-> None, state |-> None])

Spec == Init /\ [][Next]_vars

(***************************************************************************)
(* The connection status machine and _setup_websocket.                     *)
(***************************************************************************)
InitWs ==
    /\ InitStore
    /\ now = 1
    /\ ws_enabled
    /\ feed \in { [NoFeed EXCEPT !.refresh = Some(r)] : r \in ViewResponses }

NextWs ==
    \/ ApplyRefresh
    \/ SetupConnect \/ SetupConnectReturns \/ SetupConnectFails \/ SetupCheck \/ SetupSet
    \/ WsOnConnect \/ WsOnDisconnect \/ WsOnConnectError
    \/ WsOnReconnectAttempt \/ WsOnReconnect
    \/ StartRun

SpecWs == InitWs /\ [][NextWs]_vars

(***************************************************************************)
(* One background refresh on answers fixed in advance, with the key-event  *)
(* thread reading the snapshot while it runs.                              *)
(***************************************************************************)
\* refresh_state in do_refresh, one answer at a time
FeedPullStep ==
    /\ feed.pull # None
    /\ LET r == Val(feed.pull)
       IN \/ PullStatus("async", r.status) /\ pre_state' = api_state
          \/ /\ UNCHANGED pre_state
             /\ \/ PullParticipants("async", r.participants)
                \/ PullStations("async", r.stations)
                \/ PullMatches("async", r.matches)
                \/ PullStats("async", r.stats)

InitRefresh ==
    /\ InitStore
    /\ now = 1
    /\ ~ws_enabled
    /\ feed \in { [refresh |-> Some(r0), push |-> None, pull |-> Some(r1)]
                  : r0 \in ViewResponses, r1 \in ViewResponses }

NextRefresh ==
    \/ ApplyRefresh \/ StartRun
    \/ KeyRefresh \/ FeedPullStep \/ AsyncRender
    \/ KeyHome \/ KeySelectMatch

SpecRefresh == InitRefresh /\ [][NextRefresh]_vars

(***************************************************************************)
(* controller.py : _poll_loop against the clock.  Time is counted in half  *)
(* seconds and passes while the loop sleeps or waits for the service.      *)
(***************************************************************************)
Epoch == 100         \* time.time() when run() starts
Horizon == 70        \* how long the clock is followed
MaxPullTicks == 1    \* longest wait for the service during one pull

\* one iteration of the loop body, up to and including its sleep
PollIteration ==
    /\ running /\ pc["poll"] = "idle"
    /\ now < Epoch + Horizon
    /\ IF ws_connected
       THEN \* passive: a stale channel is asked for data over the channel
            \* itself (request_matches writes no local state); sleep(1)
            /\ now' = now + TicksPerSecond
            /\ UNCHANGED <<api_state, current_mode, key_configs, selected_match, sel_idx,
                           api_poll_interval, last_api_poll>>
       ELSE /\ api_poll_interval' = IF now - last_user_action > ActiveTimeout
                                    THEN PollIntervalIdle ELSE api_poll_interval
            /\ IF now - last_api_poll >= PollFallbackInterval
               THEN \E resp \in ViewResponses, d \in 0..MaxPullTicks :
                      LET res == RefreshResult(api_state, resp, now + d)
                          r == PushRerender(res.st, current_mode, selected_match,
                                            IF Replaced(resp) THEN 0 ELSE sel_idx,
                                            key_configs)
                      IN /\ api_state' = res.st
                         /\ SetView(r.view)
                         /\ selected_match' = r.sel
                         /\ sel_idx' = r.idx
                         /\ last_api_poll' = now
                         /\ now' = now + d + 1
               ELSE /\ now' = now + 1
                    /\ UNCHANGED <<api_state, current_mode, key_configs, selected_match,
                                   sel_idx, last_api_poll>>
    /\ UNCHANGED <<feed, pre_state, last, pending_scores, calls, pullVars,
                   last_user_action, ws_last_event, wsVars>>

InitPoll ==
    /\ InitStore
    /\ now = Epoch
    /\ ~ws_enabled
    /\ feed = [NoFeed EXCEPT !.refresh =
                 Some(Response(Some(Some("T1")), Some(AllParticipants), Some(ViewStations),
                               Some(<<>>), Some([total |-> 0, completed |-> 0])))]

NextPoll == ApplyRefresh \/ StartRun \/ PollIteration \/ KeyHome

SpecPoll == InitPoll /\ [][NextPoll]_vars

(***************************************************************************)
(* controller.py : _poll_loop as the coordinator of push and pull.  The    *)
(* clock is kept relative here: time.time() moving on by d is, for every   *)
(* comparison the loop makes, the same as every stored time lying d        *)
(* further back, and a stored time is followed back only as far as the     *)
(* comparison that reads it can tell.  The service answers every pull, and *)
(* every matches:request, with its record feed.pull.                       *)
(***************************************************************************)
\* "now - self._ws_last_event > 60"
StaleAfter == 60 * TicksPerSecond

Back(stamp, d, horizon) ==
    IF now - (stamp - d) > horizon THEN now - horizon ELSE stamp - d

\* TournamentWebSocket.is_connected
is_connected == sio_connected /\ ws_status = "connected"

\* mutant: a stale channel is left alone
PassiveOp_sleeps(stale, connected) == "sleep"

\* the passive branch: request_matches() when the channel looks stale
PassiveOp(stale, connected) == IF stale /\ connected THEN "matches:request" ELSE "sleep"

\* the service's record as a matches:update payload
ServicePayload == [matches |-> Val(feed.pull).matches, stats |-> None]

Did(op) == [op |-> op, ok |-> TRUE, data |-> None]

\* one iteration of the loop body, up to and including its sleep
PollLoopPass ==
    /\ running /\ pc["poll"] = "idle"
    /\ feed.pull # None
    /\ IF ws_connected
       THEN LET op == PassiveOp(now - ws_last_event > StaleAfter, is_connected)
            IN /\ last' = Did(op)
               /\ feed' = IF op = "matches:request"
                          THEN [feed EXCEPT !.push = Some(ServicePayload)] ELSE feed
               /\ last_user_action' = Back(last_user_action, TicksPerSecond, ActiveTimeout + 1)
               /\ ws_last_event' = Back(ws_last_event, TicksPerSecond, StaleAfter + 1)
               /\ last_api_poll' = Back(last_api_poll, TicksPerSecond, PollFallbackInterval)
               /\ UNCHANGED <<api_state, current_mode, key_configs, selected_match, sel_idx,
                              api_poll_interval>>
       ELSE /\ api_poll_interval' = IF now - last_user_action > ActiveTimeout
                                    THEN PollIntervalIdle ELSE api_poll_interval
            /\ IF now - last_api_poll >= PollFallbackInterval
               THEN \E d \in 0..MaxPullTicks,
                       res \in {RefreshResult(api_state, Val(feed.pull), now)} :
                      \E r \in {PushRerender(res.st, current_mode, selected_match,
                                             IF Replaced(Val(feed.pull)) THEN 0 ELSE sel_idx,
                                             key_configs)} :
                         /\ api_state' = res.st
                         /\ SetView(r.view)
                         /\ selected_match' = r.sel
                         /\ sel_idx' = r.idx
                         /\ last' = Did("pull")
                         /\ last_api_poll' = Back(now, d + 1, PollFallbackInterval)
                         /\ last_user_action' = Back(last_user_action, d + 1, ActiveTimeout + 1)
                         /\ ws_last_event' = Back(ws_last_event, d + 1, StaleAfter + 1)
               ELSE /\ last' = Did("sleep")
                    /\ last_api_poll' = Back(last_api_poll, 1, PollFallbackInterval)
                    /\ last_user_action' = Back(last_user_action, 1, ActiveTimeout + 1)
                    /\ ws_last_event' = Back(ws_last_event, 1, StaleAfter + 1)
                    /\ UNCHANGED <<api_state, current_mode, key_configs, selected_match,
                                   sel_idx>>
            /\ UNCHANGED feed
    /\ UNCHANGED <<now, pre_state, pending_scores, calls, pullVars, wsVars>>

\* the service answers a matches:request with a matches:update event
ServiceReplies ==
    /\ feed.push # None
    /\ WsMatchesUpdate(Val(feed.push))
    /\ feed' = [feed EXCEPT !.push = None]
    /\ UNCHANGED last

CoordRecord ==
    Response(Some(Some("T1")), Some(AllParticipants), Some(ViewStations),
             Some(<<RawMatch(1, 1, Some("open"), None, FALSE, None)>>),
             Some([total |-> 1, completed |-> 0]))

InitCoord ==
    /\ InitStore
    /\ now = Epoch + StaleAfter
    /\ ws_enabled
    /\ feed = [refresh |-> Some(CoordRecord), push |-> None, pull |-> Some(CoordRecord)]

SetupSteps ==
    SetupConnect \/ SetupConnectReturns \/ SetupConnectFails \/ SetupCheck \/ SetupSet

\* the channel goes up and down and carries events; no key is pressed
NextCoord ==
    \/ ApplyRefresh \/ SetupSteps \/ StartRun
    \/ WsOnConnect \/ WsOnDisconnect
    \/ PollLoopPass \/ ServiceReplies
    \/ OnWsTickerMessage
    \/ OnWsTournamentUpdate([tournamentId |-> Some("T1"), name |-> Some("Cup"),
                             gameName |-> None, state |-> None])

SpecCoord == InitCoord /\ [][NextCoord]_vars

\* the channel goes up and down and stays silent; keys are pressed
NextActivity ==
    \/ ApplyRefresh \/ SetupSteps \/ StartRun
    \/ WsOnConnect \/ WsOnDisconnect
    \/ PollLoopPass
    \/ KeyHome

SpecActivity == InitCoord /\ [][NextActivity]_vars

\* a match is selected and marked underway while the loop coordinates; the
\* loop thread keeps running and the service answers every request it gets
NextConverge ==
    \/ ApplyRefresh \/ SetupSteps \/ StartRun
    \/ WsOnConnect
    \/ PollLoopPass \/ ServiceReplies
    \/ OnWsTickerMessage
    \/ KeySelectMatch \/ KeyMarkUnderway \/ CallReturns

SpecConverge ==
    /\ InitCoord /\ [][NextConverge]_vars
    /\ WF_vars(PollLoopPass) /\ WF_vars(ServiceReplies)

(***************************************************************************)
(* The score-entry view: one match, which the service may report open with *)
(* both players or back in pending with its second slot empty.             *)
(***************************************************************************)
ScoreBatches ==
    { <<RawMatch(1, 1, Some("open"), None, FALSE, None)>>,
      <<[RawMatch(1, 1, Some("pending"), None, FALSE, None) EXCEPT !.player2Id = None]>> }

ScoreResponses ==
    { Response(Some(Some("T1")), Some(AllParticipants), Some(ViewStations), Some(b),
               Some([total |-> Len(b), completed |-> 0])) : b \in ScoreBatches }

InitScore ==
    /\ InitStore
    /\ now = 1
    /\ ~ws_enabled
    /\ feed \in { [NoFeed EXCEPT !.refresh = Some(r)] : r \in ScoreResponses }

NextScore ==
    \/ ApplyRefresh \/ StartRun
    \/ KeySelectMatch \/ KeyShowScoreEntry \/ KeyBackToMatch \/ KeyHome
    \/ KeyAdjustScore \/ KeyClearScores \/ KeySubmitScore
    \/ KeyQuickWinner \/ KeyDeclareWinnerNoted
    \/ CallReturns
    \/ \E resp \in ScoreResponses : PollPullOn(resp)

SpecScore == InitScore /\ [][NextScore]_vars

(***************************************************************************)
(* Scores: the same view, with quick scores, over a match the service      *)
(* reports without scores, with scores, or with a score text that starts   *)
(* with a minus sign.                                                      *)
(***************************************************************************)
ScoringTexts == {None, Some(<<"1", "-", "0">>), Some(<<"-", "1", "-", "1">>)}

ScoringResponses ==
    { Response(Some(Some("T1")), Some(AllParticipants), Some(ViewStations),
               Some(<<RawMatch(1, 1, Some("open"), None, FALSE, text)>>),
               Some([total |-> 1, completed |-> 0])) : text \in ScoringTexts }

InitScoring ==
    /\ InitStore
    /\ now = 1
    /\ ~ws_enabled
    /\ feed \in { [NoFeed EXCEPT !.refresh = Some(r)] : r \in ScoringResponses }

NextScoring ==
    \/ ApplyRefresh \/ StartRun
    \/ KeySelectMatch \/ KeyShowScoreEntry \/ KeyBackToMatch \/ KeyHome
    \/ KeyAdjustScore \/ KeyClearScores \/ KeySubmitScore \/ KeyQuickScore
    \/ CallReturns
    \/ \E resp \in ScoringResponses : PollPullOn(resp)

SpecScoring == InitScoring /\ [][NextScoring]_vars

(***************************************************************************)
(* Order: two open matches of rounds 1 and 2, which the operator selects,  *)
(* starts and stops while the loop pulls the same answers again.           *)
(***************************************************************************)
OrderBatch ==
    <<RawMatch(1, 1, Some("open"), None, FALSE, None),
      RawMatch(2, 2, Some("open"), None, FALSE, None)>>

OrderResponses ==
    { Response(Some(Some("T1")), Some(AllParticipants), Some(AllStations), Some(OrderBatch),
               Some([total |-> 2, completed |-> 0])) }

InitOrder ==
    /\ InitStore
    /\ now = 1
    /\ ~ws_enabled
    /\ feed \in { [NoFeed EXCEPT !.refresh = Some(r)] : r \in OrderResponses }

NextOrder ==
    \/ ApplyRefresh \/ StartRun
    \/ KeySelectMatch \/ KeyBackToMain \/ KeyHome
    \/ KeyMarkUnderway \/ KeyUnmarkUnderway
    \/ CallReturns
    \/ \E resp \in OrderResponses : PollPullOn(resp)

SpecOrder == InitOrder /\ [][NextOrder]_vars

(***************************************************************************)
(* Pushes without matches: the channel delivers matches:update events      *)
(* whose list is absent, empty or holds a record, at any time after the    *)
(* connection is up.  last keeps the event handled last.                   *)
(***************************************************************************)
NotedPushes ==
    { [matches |-> None, stats |-> Some([total |-> Some(2), completed |-> Some(2)])],
      [matches |-> Some(<<>>), stats |-> Some([total |-> Some(2), completed |-> Some(2)])],
      [matches |-> Some(<<RawMatch(1, 1, Some("complete"), None, TRUE, None)>>),
       stats |-> None] }

OnWsMatchesUpdateNoted ==
    \E data \in NotedPushes :
       /\ WsMatchesUpdate(data)
       /\ last' = [op |-> "push", ok |-> PushMatchesResult(api_state, data, now).ok,
                   data |-> Some(data)]
       /\ UNCHANGED feed

NextNoted ==
    \/ ApplyRefresh \/ SetupSteps \/ StartRun
    \/ WsOnConnect \/ WsOnDisconnect
    \/ KeySelectMatch \/ KeyBackToMain \/ KeyHome
    \/ OnWsMatchesUpdateNoted

SpecNoted == InitCoord /\ [][NextNoted]_vars

(***************************************************************************)
(* controller.py : a burst of quick scores.  Every press starts a thread   *)
(* of its own for the remote call (_run_api_action); the threads run side  *)
(* by side, and last keeps the update the service received last.           *)
(***************************************************************************)
MaxBurst == 2        \* background action threads alive at once in a burst

\* _action_quick_score, with up to MaxBurst threads alive
BurstQuickScore ==
    /\ Pressed({"match_control"})
    /\ \E player_idx \in {0, 1} :
         IF selected_match # None
         THEN LET p1_score == Val(selected_match).player1_score
                              + (IF player_idx = 0 THEN 1 ELSE 0)
                  p2_score == Val(selected_match).player2_score
                              + (IF player_idx = 0 THEN 0 ELSE 1)
                  match == [Val(selected_match) EXCEPT !.player1_score = p1_score,
                                                       !.player2_score = p2_score]
              IN /\ p1_score <= MaxScore /\ p2_score <= MaxScore
                 /\ selected_match' = Some(match)
                 /\ api_state' = WriteThrough(api_state, sel_idx, match)
                 /\ SetView(render_match_control_view(api_state', Some(match)))
                 /\ Cardinality(calls) < MaxBurst
                 /\ calls' = calls \cup {Call("update_score", match.id, <<p1_score, p2_score>>)}
                 /\ UNCHANGED sel_idx
         ELSE NoSelection
    /\ UNCHANGED pending_scores
    /\ KeyFrame

\* do_action of one of the threads: update_score posts the scores, the
\* service receives them, the thread ends
ScoreArrives ==
    /\ \E c \in calls :
          /\ calls' = calls \ {c}
          /\ last' = IF TruthyStr(api_state.tournament_id)
                     THEN [op |-> "update_score", ok |-> TRUE, data |-> Some(c)]
                     ELSE last
    /\ UNCHANGED <<api_state, now, feed, pre_state, current_mode, selected_match, sel_idx,
                   pending_scores, key_configs, pullVars, timeVars, wsVars>>

NextBurst ==
    \/ ApplyRefresh \/ StartRun
    \/ KeySelectMatch \/ KeyBackToMain \/ KeyHome
    \/ BurstQuickScore
    \/ ScoreArrives

SpecBurst == InitScore /\ [][NextBurst]_vars

(***************************************************************************)
(* controller.py : _action_quick_score with the other threads running      *)
(* between its selection check and its first read of the selected match.   *)
(***************************************************************************)
\* on_key_press, _handle_short_press, "if not self.selected_match: return"
QuickScoreCheck ==
    /\ Pressed({"match_control"})
    /\ key_pc' = IF selected_match # None THEN "quick_score" ELSE "idle"
    /\ UNCHANGED <<storeVars, viewVars, refresh_pending, pc, locals, running,
                   last_api_poll, ws_last_event, wsVars>>

\* "match_id = self.selected_match.id" to the end of the handler; on a
\* selection that is None by now the read raises AttributeError inside the
\* device's callback, after which key events are handled again or are not
QuickScoreBody ==
    /\ key_pc = "quick_score"
    /\ IF selected_match = None
       THEN /\ key_pc' \in {"idle", "raised"}
            /\ NoSelection
       ELSE /\ key_pc' = "idle"
            /\ \E player_idx \in {0, 1} :
                  LET p1_score == Val(selected_match).player1_score
                                  + (IF player_idx = 0 THEN 1 ELSE 0)
                      p2_score == Val(selected_match).player2_score
                                  + (IF player_idx = 0 THEN 0 ELSE 1)
                  IN /\ p1_score <= MaxScore /\ p2_score <= MaxScore
                     /\ Optimistic([Val(selected_match) EXCEPT !.player1_score = p1_score,
                                                               !.player2_score = p2_score],
                                   Call("update_score", Val(selected_match).id,
                                        <<p1_score, p2_score>>))
    /\ UNCHANGED <<now, feed, pre_state, last, pending_scores, refresh_pending, pc, locals,
                   running, timeVars, wsVars>>

InitRace ==
    /\ InitStore
    /\ now = 1
    /\ ~ws_enabled
    /\ feed \in { [NoFeed EXCEPT !.refresh = Some(r)] : r \in ViewResponses }

NextRace ==
    \/ ApplyRefresh \/ StartRun
    \/ KeySelectMatch \/ KeyHome \/ KeyBackToMain
    \/ QuickScoreCheck \/ QuickScoreBody
    \/ CallReturns
    \/ PollPullAtomic

SpecRace == InitRace /\ [][NextRace]_vars

(***************************************************************************)
(* controller.py : run() from the start of the two loops to the end of the *)
(* cleanup.  Key events come from the device's reader thread, _poll_loop   *)
(* runs on its own thread, run() on the main thread.                       *)
(***************************************************************************)
RunFrame == UNCHANGED <<storeVars, viewVars, refresh_pending, locals, key_pc, timeVars,
                        setup_pc, reconnect_attempts, ws_enabled, current_reconnect_delay>>

\* "exit": _action_exit
KeyExit ==
    /\ Pressed({"main"})
    /\ running' = FALSE
    /\ UNCHANGED <<storeVars, viewVars, refresh_pending, pc, locals, key_pc,
                   last_api_poll, ws_last_event, wsVars>>

\* run_polling_loop is entered: "self._running = True" of StreamDeckHID
EnterKeyLoop ==
    /\ run_pc = "started"
    /\ hid_running' = TRUE
    /\ run_pc' = "key_loop"
    /\ UNCHANGED <<running, pc, ws_connected, ws_status, sio_connected>>
    /\ RunFrame

\* run_polling_loop is left: "while self._running" finds the flag of
\* StreamDeckHID cleared, or KeyboardInterrupt is raised in the main thread
KeyLoopEnds ==
    /\ run_pc = "key_loop"
    /\ \E interrupted \in BOOLEAN : interrupted \/ ~hid_running
    /\ run_pc' = "cleanup"
    /\ UNCHANGED <<running, pc, hid_running, ws_connected, ws_status, sio_connected>>
    /\ RunFrame

\* the first way out of the loop alone
KeyLoopReturns == ~hid_running /\ KeyLoopEnds

\* _poll_loop: "while self._running" finds the controller's flag cleared
PollLoopExits ==
    /\ run_pc # "init" /\ ~running
    /\ pc["poll"] = "idle"
    /\ pc' = [pc EXCEPT !["poll"] = "stopped"]
    /\ UNCHANGED <<running, hidVars, ws_connected, ws_status, sio_connected>>
    /\ RunFrame

\* cleanup: "self._running = False"
RunCleanup ==
    /\ run_pc = "cleanup"
    /\ running' = FALSE
    /\ run_pc' = "join"
    /\ UNCHANGED <<pc, hid_running, ws_connected, ws_status, sio_connected>>
    /\ RunFrame

\* self._poll_thread.join(timeout=1) returns, the thread ended or not
RunJoin ==
    /\ run_pc = "join"
    /\ run_pc' = "disconnect"
    /\ UNCHANGED <<running, pc, hid_running, ws_connected, ws_status, sio_connected>>
    /\ RunFrame

\* "if self._websocket: self._websocket.disconnect()"
RunDisconnect ==
    /\ run_pc = "disconnect"
    /\ run_pc' = "clear"
    /\ IF setup_pc # "idle"
       THEN /\ sio_connected' = FALSE
            /\ SetStatus("disconnected")
       ELSE UNCHANGED <<sio_connected, ws_status, ws_connected, current_mode, key_configs>>
    /\ UNCHANGED <<storeVars, selected_match, sel_idx, pending_scores, calls, pullVars,
                   timeVars, setup_pc, reconnect_attempts, ws_enabled,
                   current_reconnect_delay, hid_running>>

\* self.deck.clear_all_keys(); self.deck.close()
RunClose ==
    /\ run_pc = "clear"
    /\ hid_running' = FALSE
    /\ run_pc' = "closed"
    /\ UNCHANGED <<running, pc, ws_connected, ws_status, sio_connected>>
    /\ RunFrame

InitExit ==
    /\ InitStore
    /\ now = 1
    /\ feed \in { [NoFeed EXCEPT !.refresh = Some(r)] : r \in ScoreResponses }

\* key events arrive while the device is open
DeckKeys == run_pc # "closed" /\ (KeySelectMatch \/ KeyHome \/ KeyExit)

NextExit ==
    \/ ApplyRefresh
    \/ SetupSteps \/ WsOnConnect \/ WsOnDisconnect
    \/ StartRun \/ EnterKeyLoop \/ KeyLoopEnds
    \/ DeckKeys
    \/ \E resp \in ScoreResponses : PollPullOn(resp)
    \/ PollLoopExits
    \/ RunCleanup \/ RunJoin \/ RunDisconnect \/ RunClose

\* every thread keeps running: the loops test their flags again and again,
\* and the cleanup of run() goes on to its end
SpecExit ==
    /\ InitExit /\ [][NextExit]_vars
    /\ WF_vars(EnterKeyLoop) /\ WF_vars(KeyLoopReturns) /\ WF_vars(PollLoopExits)
    /\ WF_vars(RunCleanup) /\ WF_vars(RunJoin) /\ WF_vars(RunDisconnect) /\ WF_vars(RunClose)

(***************************************************************************)
(* Parsing: a full refresh and then a push, of batches whose records may   *)
(* be malformed.  The record at position j has id j.                       *)
(***************************************************************************)
MaxParseLen == 2     \* longest raw batch of the parsing checks

\* "1-2", "a-2", "", "2"
ScoreText(kind) ==
    CASE kind = "both" -> Some(<<"1", "-", "2">>)
      [] kind = "letter" -> Some(<<"a", "-", "2">>)
      [] kind = "empty" -> Some(<<>>)
      [] kind = "one" -> Some(<<"2">>)
      [] OTHER -> None

RecordKinds == {"both", "letter", "empty", "one", "absent", "foo", "null"}

\* the raw record of a kind: "foo" carries an unknown state string, "null"
\* is no JSON object
RawOfKind(j, kind) ==
    IF kind = "null" THEN [raw |-> "null"]
    ELSE RawMatch(j, 1, IF kind = "foo" THEN Some("foo") ELSE Some("open"), None, FALSE,
                  ScoreText(kind))

ParseBatches ==
    UNION { { [j \in 1..k |-> RawOfKind(j, f[j])] : f \in [1..k -> RecordKinds] }
            : k \in 0..MaxParseLen }

ParseResponses ==
    { Response(Some(Some("T1")), Some(AllParticipants), Some(AllStations), Some(b),
               Some([total |-> Len(b), completed |-> 0])) : b \in ParseBatches }

ParsePayloads == { [matches |-> Some(b), stats |-> None] : b \in ParseBatches }

\* refresh_state called again, later, with the service answering as before
ApplyRefreshAgain ==
    /\ last.op = "refresh" /\ last.data # None
    /\ LET res == RefreshResult(api_state, Val(last.data), now + 1)
       IN /\ api_state' = res.st
          /\ last' = [op |-> "refresh_again", ok |-> res.ok, data |-> last.data]
    /\ pre_state' = api_state
    /\ now' = now + 1
    /\ UNCHANGED <<feed, ctlVars>>

InitParse ==
    /\ InitStore /\ now = 1 /\ ~ws_enabled
    /\ feed \in { [refresh |-> Some(r), push |-> Some(p), pull |-> None]
                  : r \in ParseResponses, p \in ParsePayloads }

NextParse == ApplyRefresh \/ ApplyRefreshAgain \/ ApplyPushMatches

SpecParse == InitParse /\ [][NextParse]_vars

(***************************************************************************)
(* The life of the snapshot: refreshes (also with no active tournament or  *)
(* with the service down), pushes of matches and of tournament metadata,   *)
(* and forfeits, one after the other, each a tick after the one before.    *)
(***************************************************************************)
MaxStamp == 4        \* the clock is followed from 1 to MaxStamp

\* match 1 has both players, match 2 waits for its second player
LifeBatch ==
    <<RawMatch(1, 1, Some("open"), None, FALSE, None),
      [RawMatch(2, 1, Some("pending"), None, FALSE, None) EXCEPT !.player2Id = None]>>

LifeResponses ==
    { Response(Some(Some("T1")), Some(AllParticipants), Some(AllStations), Some(LifeBatch),
               Some([total |-> 2, completed |-> 1])),
      Response(Some(None), None, None, None, None),    \* no active tournament
      Response(None, None, None, None, None) }         \* no answer

LifePayloads ==
    { [matches |-> Some(<<RawMatch(1, 1, Some("complete"), None, TRUE, None)>>),
       stats |-> Some([total |-> Some(2), completed |-> Some(2)])],
      [matches |-> None, stats |-> None] }

TournamentPayloads ==
    [tournamentId : {None, Some("T2")}, name : {None, Some("Cup")},
     gameName : {None, Some("Melee")}, state : {None, Some("underway")}]

\* one call of a method of the client, a tick after the previous one
StoreStep(op, res, data) ==
    /\ now < MaxStamp
    /\ now' = now + 1
    /\ api_state' = res.st
    /\ pre_state' = api_state
    /\ last' = [op |-> op, ok |-> res.ok, data |-> Some(data)]
    /\ UNCHANGED <<feed, ctlVars>>

RefreshOn(resp) == StoreStep("refresh", RefreshResult(api_state, resp, now + 1), resp)
PushOn(data) == StoreStep("push", PushMatchesResult(api_state, data, now + 1), data)
TournamentPushOn(data) ==
    StoreStep("tournament", PushTournamentResult(api_state, data, now + 1), data)

\* forfeit(match_id, loser_player_number): the snapshot is read, not written
Forfeit ==
    \E match_id \in MatchIds, loser_player_number \in {1, 2}, answer \in PostAnswers :
       LET post == ForfeitPost(api_state, match_id, loser_player_number)
       IN StoreStep("forfeit", [st |-> api_state, ok |-> ForfeitReturns(post, answer)],
                    [match_id |-> match_id, loser_player_number |-> loser_player_number,
                     post |-> post])

InitLife == InitStore /\ now = 1 /\ ~ws_enabled /\ feed = NoFeed

NextLife ==
    \/ \E resp \in LifeResponses : RefreshOn(resp)
    \/ \E data \in LifePayloads : PushOn(data)
    \/ \E data \in TournamentPayloads : TournamentPushOn(data)
    \/ Forfeit

SpecLife == InitLife /\ [][NextLife]_vars

(***************************************************************************)
(* Specification SpecHttp: one call of the client against a service whose  *)
(* next answers are drawn at the start, for every configuration of the     *)
(* client, with and without an active tournament in the snapshot.          *)
(***************************************************************************)
MaxAnswers == 3      \* the answers the service has ready

AnswerLists == [1..MaxAnswers -> HttpAnswers]

ActionEndpoints == {"underway", "score"}

\* the call is made once; what it sent and returned is kept in last
HttpStep(op, out, ok) ==
    /\ last' = [op |-> op, ok |-> ok,
                data |-> Some([answers |-> feed.http, result |-> out.result,
                               sent |-> out.sent, rest |-> out.rest])]
    /\ feed' = [feed EXCEPT !.http = out.rest]
    /\ UNCHANGED <<api_state, now, pre_state, ctlVars>>

CallGetStatus ==
    /\ last.op = "init"
    /\ \E out \in {get_status(feed.client, feed.http)} :
       HttpStep("get_status", out, out.result # None)

CallPostAction ==
    /\ last.op = "init"
    /\ \E endpoint \in ActionEndpoints :
          \E out \in {PostAction(api_state, feed.client, endpoint, feed.http)} :
             HttpStep(endpoint, out, out.result)

CallLogin ==
    /\ last.op = "init"
    /\ \E out \in {login(feed.client, feed.http)} : HttpStep("login", out, out.result)

InitHttp ==
    /\ api_state \in {EmptyState, [EmptyState EXCEPT !.tournament_id = Some("T1")]}
    /\ pre_state = EmptyState
    /\ last = [op |-> "init", ok |-> TRUE, data |-> None]
    /\ InitController /\ ~ws_enabled
    /\ now = 1
    /\ feed \in [refresh : {None}, push : {None}, pull : {None},
                 http : AnswerLists, client : ClientConfigs]

NextHttp == CallGetStatus \/ CallPostAction \/ CallLogin

SpecHttp == InitHttp /\ [][NextHttp]_vars

(***************************************************************************)
(* Claims about the threads                                                *)
(***************************************************************************)
\* refresh_state has been called and has not returned
InFlight(p) == pc[p] \in {"status", "participants", "stations", "matches", "stats"}
\* refresh_state has written the tournament id and not yet the counters
InApply(p) == pc[p] \in {"participants", "stations", "matches", "stats"}

\* C1: at most one reconciliation pull (a call of refresh_state) is in
\* flight at any time, whether the poll loop, the refresh key or the
\* long-press quick start asked for it.
C1_OnePullInFlight == Cardinality({p \in Pullers : InFlight(p)}) <= 1

\* C2: the controller's _ws_connected flag is true exactly when the push
\* channel's status is connected, in every reachable state.
C2_FlagIffConnected == ws_connected <=> (ws_status = "connected")

\* C3: while pull-driven, the poll loop pulls exactly when the time since its
\* previous pull has reached the adaptive interval (the active cadence after
\* a key press, the idle cadence once the inactivity window has passed).
C3_AdaptiveCadence ==
    [][(PollIteration /\ ~ws_connected)
         => ((last_api_poll' # last_api_poll) <=> (now - last_api_poll >= api_poll_interval'))]_vars

\* C7: writes to the snapshot are serialized: while one full refresh is
\* between its first and its last write, the only step that changes the
\* snapshot is that refresh's own next step (no second refresh, no push, no
\* optimistic write).
C7_WritesSerialized ==
    [][api_state' # api_state
         => \A p \in Pullers :
               InApply(p) => (pc'[p] # pc[p] /\ \A q \in Pullers \ {p} : ~InApply(q))]_vars

\* C8: while a full refresh runs, the snapshot a reader sees is either the
\* complete snapshot from before the refresh or the complete one after it.
C8_NoPartialRefresh ==
    (feed.pull # None /\ InApply("async"))
    => api_state \in {pre_state, RefreshResult(pre_state, Val(feed.pull), now).st}

(***************************************************************************)
(* Claims about the optimistic actions                                     *)
(***************************************************************************)
HasSelection == selected_match # None
MarkCall == Call("mark_underway", Val(selected_match).id, <<>>)

MarkEnds == (KeyMarkUnderway /\ HasSelection) => is_underway(Val(selected_match'))
UnmarkEnds == (KeyUnmarkUnderway /\ HasSelection) => ~is_underway(Val(selected_match'))
QuickScoreEnds ==
    (KeyQuickScore /\ HasSelection)
    => (Val(selected_match').player1_score + Val(selected_match').player2_score
        = Val(selected_match).player1_score + Val(selected_match).player2_score + 1)
SubmitEnds ==
    (KeySubmitScore /\ HasSelection)
    => (Val(selected_match').player1_score = pending_scores[1]
        /\ Val(selected_match').player2_score = pending_scores[2])
AssignEnds ==
    (KeyAssignStation /\ HasSelection)
    => (Val(selected_match').station_name # Val(selected_match).station_name
        /\ (Val(selected_match').station_name = None <=> Val(selected_match').station_id = None))
DeclareEnds ==
    (KeyDeclareWinner /\ HasSelection /\ pending_scores[1] # pending_scores[2] /\ sel_idx # 0)
    => (/\ sel_idx \in DOMAIN api_state'.matches
        /\ api_state'.matches[sel_idx].state = "complete"
        /\ api_state'.matches[sel_idx].winner_id = WinnerId(Val(selected_match), pending_scores))
ReopenEnds == (KeyReopenMatch /\ HasSelection) => Val(selected_match').state = "open"

\* C10: every optimistic action leaves the local match in the action's
\* intended end state when its handler returns: underway set / cleared,
\* scores set, station set / cleared, winner and completed state recorded,
\* match back to open.
C10_OptimisticEndState ==
    [][MarkEnds /\ UnmarkEnds /\ QuickScoreEnds /\ SubmitEnds /\ AssignEnds
       /\ DeclareEnds /\ ReopenEnds]_vars

(***************************************************************************)
(* Claims about reconciliation                                             *)
(***************************************************************************)
\* a background action thread ends
CallCompletes == \E c \in calls : calls' = calls \ {c}

SelectionCurrent ==
    HasSelection => /\ sel_idx \in DOMAIN api_state.matches
                    /\ api_state.matches[sel_idx] = Val(selected_match)
                    /\ get_match_index(api_state, Val(selected_match).id) = sel_idx

\* C12: after a full refresh has been applied and its thread has updated the
\* view, the selected match, when there is one, is the snapshot's current
\* record for its id, in every view mode.
C12_ReconcileSupersedes ==
    [][(AsyncRefreshAtomic \/ PollPullAtomic) => SelectionCurrent']_vars

\* C14: a completed pull never changes the current view: the view mode after
\* its thread has updated the display equals the view mode before it.
C14_NetworkKeepsView ==
    [][(AsyncRefreshAtomic \/ PollPullAtomic) => current_mode' = current_mode]_vars

\* C18: the key-event thread never waits for a remote call: it is never
\* inside a key handler that has called the service and not yet got the
\* answer.
C18_KeyThreadNeverWaits == key_pc # "long_press"

(***************************************************************************)
(* Claims about the winner actions                                         *)
(***************************************************************************)
Tie == pending_scores[1] = pending_scores[2]

\* C19: declare-winner with equal pending scores is a local no-op: the
\* snapshot, the selection, the pending scores and the view are unchanged
\* and no remote call is started.
C19_TieIsNoOp ==
    [][(KeyDeclareWinnerNoted /\ Tie)
         => UNCHANGED <<api_state, selected_match, sel_idx, pending_scores, current_mode,
                        key_configs, calls>>]_vars

\* declare-winner was pressed at 1-1 and nothing happened
C19_Witness ==
    /\ last.op = "declare_winner" /\ ~last.ok
    /\ pending_scores = <<1, 1>>
    /\ HasSelection
    /\ current_mode = "score_entry"
    /\ calls = {}

HasWinner == TruthyInt(WinnerId(Val(selected_match), pending_scores))
BackInMain == selected_match' = None /\ current_mode' = "main" /\ key_configs'.view = "main"

PullDue == now - last_api_poll >= PollFallbackInterval

\* C15: while the push status is connected no pass of the poll loop pulls;
\* once the status is disconnected, the next pass at or after the configured
\* interval since the last pull does pull.
C15_PullIffDisconnected ==
    [][PollLoopPass
         => /\ (ws_status = "connected" => last'.op # "pull")
            /\ ((ws_status = "disconnected" /\ PullDue) => last'.op = "pull")]_vars

\* C16: while the push status is connected and no push event has arrived
\* for more than 60 s, a pass of the poll loop sends matches:request over
\* the channel and performs no pull: the snapshot is untouched.
C16_StaleAsksOverChannel ==
    [][(PollLoopPass /\ ws_status = "connected"
          /\ now - ws_last_event > 60 * TicksPerSecond)
         => (/\ last'.op = "matches:request"
             /\ feed'.push = Some(ServicePayload)
             /\ api_state' = api_state)]_vars

\* a tournament:update event has arrived, the channel then stayed silent
\* for more than 60 s, and the loop has asked for the matches
C16_Witness ==
    /\ api_state.tournament_name = "Cup"
    /\ ws_status = "connected"
    /\ now - ws_last_event > StaleAfter
    /\ last.op = "matches:request"
    /\ feed.push # None

\* C17: at every pass of the poll loop, also while the push channel is
\* connected, the poll interval becomes the idle cadence when the inactivity
\* window has passed with no key press, and is the active cadence otherwise.
C17_ActivityTracked ==
    [][PollLoopPass
         => api_poll_interval' = (IF now - last_user_action > ActiveTimeout
                                  THEN PollIntervalIdle ELSE PollIntervalActive)]_vars

\* the match records a pull of the service's record leaves in the snapshot
ServiceMatches == RefreshResult(EmptyState, Val(feed.pull), now).st.matches

\* an optimistic write has left the snapshot different from the service's
\* record
Diverged == running /\ feed.pull # None /\ api_state.matches # ServiceMatches
LocalIsService == feed.pull # None /\ api_state.matches = ServiceMatches

\* C13: with the service answering, after an optimistic mutation a state is
\* eventually reached in which the local match records equal the service's.
C13_EventuallyConsistent == Diverged ~> LocalIsService

(***************************************************************************)
(* Claims about parsing                                                    *)
(***************************************************************************)
\* the raw batch the last apply was given
AppliedBatch == IF last.data # None THEN Val(Val(last.data).matches) ELSE <<>>
BatchApplied == last.op \in {"refresh", "push"}

\* the snapshot holds a match with this id, these scores / this state
HoldsScores(id, s1, s2) ==
    \E i \in DOMAIN api_state.matches :
        /\ api_state.matches[i].id = id
        /\ api_state.matches[i].player1_score = s1
        /\ api_state.matches[i].player2_score = s2
HoldsState(id, state) ==
    \E i \in DOMAIN api_state.matches :
        api_state.matches[i].id = id /\ api_state.matches[i].state = state

\* a record the parser has no reason to reject: an object whose score
\* segments are numbers or blank
WellFormed(m) ==
    /\ IsObject(m)
    /\ \A seg \in Range(Split(ScoresStr(m), "-")) : \A c \in Range(Strip(seg)) : c \in Digits
WellFormedIds == {AppliedBatch[j].id : j \in {k \in DOMAIN AppliedBatch : WellFormed(AppliedBatch[k])}}

\* C22: a batch applied by full refresh or by push is applied whatever
\* malformed records it holds: the apply succeeds and the snapshot holds
\* exactly the well-formed records of the batch.
C22_BadRecordSkipped ==
    (BatchApplied /\ AppliedBatch # <<>>)
    => (/\ last.ok
        /\ IdsOf(api_state.matches) = WellFormedIds
        /\ Len(api_state.matches) = Cardinality(WellFormedIds))

\* C23: a record whose scores string is "a-2" is in the snapshot after the
\* apply, with 0 for the segment that is no number.
C23_LetterScoreIsZero ==
    BatchApplied
    => \A j \in DOMAIN AppliedBatch :
          (IsObject(AppliedBatch[j]) /\ AppliedBatch[j].scores_csv = Some(<<"a", "-", "2">>))
          => HoldsScores(AppliedBatch[j].id, 0, 2)

\* C24: after a successful apply, a record whose scores field is absent or
\* empty is in the snapshot with 0 - 0, and one with the single segment "2"
\* with 2 - 0.
C24_MissingScoreIsZero ==
    (BatchApplied /\ last.ok)
    => \A j \in DOMAIN AppliedBatch :
          LET m == AppliedBatch[j]
          IN /\ (IsObject(m) /\ m.scores_csv \in {None, Some(<<>>)} /\ m.scores = None)
                   => HoldsScores(m.id, 0, 0)
             /\ (IsObject(m) /\ m.scores_csv = Some(<<"2">>)) => HoldsScores(m.id, 2, 0)

\* a push of a record with scores_csv = "" and one with "2" has been applied
C24_Witness ==
    /\ last.op = "push" /\ last.ok
    /\ Len(AppliedBatch) = 2
    /\ IsObject(AppliedBatch[1]) /\ IsObject(AppliedBatch[2])
    /\ AppliedBatch[1].scores_csv = Some(<<>>)
    /\ AppliedBatch[2].scores_csv = Some(<<"2">>)
    /\ HoldsScores(1, 0, 0)
    /\ HoldsScores(2, 2, 0)

\* C25: after a successful apply, a record whose state string is "foo" is in
\* the snapshot with state pending.
C25_UnknownStateIsPending ==
    (BatchApplied /\ last.ok)
    => \A j \in DOMAIN AppliedBatch :
          (IsObject(AppliedBatch[j]) /\ AppliedBatch[j].state = Some("foo"))
          => HoldsState(AppliedBatch[j].id, "pending")

\* a refresh of a "foo" record and an open one has been applied: both are
\* held, the open one first
C25_Witness ==
    /\ last.op = "refresh" /\ last.ok
    /\ Len(AppliedBatch) = 2
    /\ IsObject(AppliedBatch[1]) /\ IsObject(AppliedBatch[2])
    /\ AppliedBatch[1].state = Some("foo")
    /\ AppliedBatch[2].state = Some("open")
    /\ Len(api_state.matches) = 2
    /\ api_state.matches[1].id = 2 /\ api_state.matches[1].state = "open"
    /\ api_state.matches[2].id = 1 /\ api_state.matches[2].state = "pending"

\* C28: a full refresh applied a second time with the same five responses
\* leaves the snapshot it found: the same matches in the same order, the same
\* stations, tournament identity and counters (the time stamp apart).
C28_RefreshIdempotent ==
    last.op = "refresh_again"
    => (/\ last.ok
        /\ [api_state EXCEPT !.last_update = 0] = [pre_state EXCEPT !.last_update = 0])

\* the second refresh of a batch of two has run, one tick after the first
C28_Witness ==
    /\ last.op = "refresh_again" /\ last.ok
    /\ Len(api_state.matches) = 2
    /\ api_state.matches[1].id = 2
    /\ api_state.tournament_id = Some("T1")
    /\ api_state.total_matches = 2
    /\ pre_state.last_update = 1
    /\ api_state.last_update = 2

Forfeited == last.op = "forfeit"
\* the match the forfeit names, as the snapshot holds it (0: unknown)
ForfeitIndex == get_match_index(api_state, Val(last.data).match_id)
ForfeitMatch == api_state.matches[ForfeitIndex]
SlotEmpty == ForfeitMatch.player1 = None \/ ForfeitMatch.player2 = None

\* C21: a forfeit posts a dq request only for a match whose two slots hold a
\* player, with the loser the player of the named slot and the winner the
\* player of the other slot as the snapshot has them at the call; with a
\* slot empty, the match unknown or no tournament active it posts nothing
\* and returns false.
C21_ForfeitNeedsBothSlots ==
    Forfeited
    => LET d == Val(last.data)
       IN /\ d.post # None
               => (/\ ForfeitIndex # 0 /\ ~SlotEmpty
                   /\ Val(d.post).loserId
                        = (IF d.loser_player_number = 1 THEN Val(ForfeitMatch.player1).id
                           ELSE Val(ForfeitMatch.player2).id)
                   /\ Val(d.post).winnerId
                        = (IF d.loser_player_number = 1 THEN Val(ForfeitMatch.player2).id
                           ELSE Val(ForfeitMatch.player1).id))
          /\ (ForfeitIndex = 0 \/ SlotEmpty \/ ~TruthyStr(api_state.tournament_id))
               => (d.post = None /\ ~last.ok)

\* player 2 of match 1 has been forfeited and the service accepted it
C21_Witness ==
    /\ Forfeited /\ last.ok
    /\ Val(last.data).match_id = 1
    /\ Val(last.data).loser_player_number = 2
    /\ Val(last.data).post = Some([tournament_id |-> Some("T1"), match_id |-> 1,
                                   winnerId |-> 1, loserId |-> 2])
    /\ api_state = pre_state

\* the field after a metadata push: the pushed value when the key is there,
\* the previous value when it is not
Patched(key, now_value, old_value) ==
    IF Val(last.data)[key] = None THEN now_value = old_value
    ELSE now_value = Val(Val(last.data)[key])

\* C26: a tournament metadata push writes the fields whose keys it carries
\* and no other: an absent key leaves its field as it was, and the matches,
\* the stations and the counters are as they were.
C26_MetadataPatch ==
    last.op = "tournament"
    => (/\ IF Val(last.data).tournamentId = None
           THEN api_state.tournament_id = pre_state.tournament_id
           ELSE api_state.tournament_id = Val(last.data).tournamentId
        /\ Patched("name", api_state.tournament_name, pre_state.tournament_name)
        /\ Patched("gameName", api_state.game_name, pre_state.game_name)
        /\ Patched("state", api_state.state, pre_state.state)
        /\ api_state.matches = pre_state.matches
        /\ api_state.stations = pre_state.stations
        /\ api_state.total_matches = pre_state.total_matches
        /\ api_state.completed_matches = pre_state.completed_matches)

\* after a refresh and a push of name and state, a push of the game name
\* alone: name, state, tournament id and matches are still there
C26_Witness ==
    /\ last.op = "tournament"
    /\ Val(last.data) = [tournamentId |-> None, name |-> None, gameName |-> Some("Melee"),
                         state |-> None]
    /\ api_state.game_name = "Melee"
    /\ api_state.tournament_name = "Cup"
    /\ api_state.state = "underway"
    /\ api_state.tournament_id = Some("T1")
    /\ Len(api_state.matches) = 2
    /\ api_state.total_matches = 2

SuccessfulApply == last.op \in {"refresh", "push", "tournament"} /\ last.ok

\* C27: every successful apply (full refresh, also one that finds no active
\* tournament, push of matches, push of metadata) leaves the snapshot's
\* last_update at the time of the apply, never below what it was.
C27_LastUpdateMonotonic ==
    SuccessfulApply
    => (api_state.last_update = now /\ api_state.last_update >= pre_state.last_update)

NoTournamentRefresh ==
    /\ last.op = "refresh"
    /\ Val(last.data).status # None
    /\ ~TruthyStr(Val(Val(last.data).status))

\* C29: the snapshot is empty at startup, and a full refresh that finds no
\* active tournament reports success and leaves it empty: no tournament id,
\* no matches, no stations, both counters 0.
C29_NoTournamentResets ==
    (last.op = "init" \/ NoTournamentRefresh)
    => (/\ last.ok
        /\ api_state.tournament_id = None
        /\ api_state.matches = <<>>
        /\ api_state.stations = <<>>
        /\ api_state.total_matches = 0
        /\ api_state.completed_matches = 0)

\* a snapshot that held a tournament with two matches has been reset
C29_Witness ==
    /\ NoTournamentRefresh /\ last.ok
    /\ pre_state.tournament_id = Some("T1")
    /\ Len(pre_state.matches) = 2
    /\ pre_state.total_matches = 2
    /\ api_state.matches = <<>>
    /\ api_state.tournament_id = None

(***************************************************************************)
(* Claims about the requests of the client                                 *)
(***************************************************************************)
\* the last call, what the service had ready for it and what came of it
HttpCall == Val(last.data)
Called(ops) == last.op \in ops /\ HttpCall.sent # <<>>
Refused401 == HttpCall.answers[1].status = 401

\* C32: with an API token set, a request answered 401 ends the call: the
\* call returns None (get_status) or False (an action), the client has sent
\* that one request and nothing else (no login, no token verification, no
\* second try), and the call returns a value instead of raising.
C32_Token401IsTerminal ==
    (Called({"get_status"} \cup ActionEndpoints) /\ feed.client.api_token /\ Refused401)
    => /\ IF last.op = "get_status" THEN HttpCall.result = None ELSE HttpCall.result = FALSE
       /\ ~last.ok
       /\ Len(HttpCall.sent) = 1
       /\ HttpCall.sent[1].endpoint \in {"/api/status"} \cup ActionEndpoints
       /\ HttpCall.rest = Tail(HttpCall.answers)

\* an action on a tournament was answered 401 under a token, and the answers
\* after it would have let a new verification and a second try succeed
C32_Witness ==
    /\ Called(ActionEndpoints) /\ feed.client.api_token /\ Refused401
    /\ HttpCall.answers[2] = [status |-> 200, success |-> TRUE]
    /\ HttpCall.answers[3] = [status |-> 200, success |-> TRUE]
    /\ ~last.ok

(***************************************************************************)
(* Claims about the score-entry view                                       *)
(***************************************************************************)
ScoresOf(match) == <<match.player1_score, match.player2_score>>

\* C33: opening the score-entry view on a selected match puts that match's
\* two scores into pending_scores, whatever the buffer held before, and
\* changes neither the snapshot nor the background calls; "cancel_score"
\* leaves the match view showing, the snapshot and the selection as they
\* were, and starts no call.
C33_ScoreEntryBuffer ==
    [][ /\ (KeyShowScoreEntry /\ selected_match # None)
           => /\ current_mode' = "score_entry"
              /\ pending_scores' = ScoresOf(Val(selected_match))
              /\ (sel_idx # 0 => pending_scores' = ScoresOf(api_state.matches[sel_idx]))
              /\ api_state' = api_state /\ calls' = calls
        /\ KeyBackToMatch
           => /\ current_mode' = "match_control"
              /\ api_state' = api_state /\ selected_match' = selected_match
              /\ calls' = calls
      ]_vars

\* the match view after a cancel: no call was started and the buffer still
\* holds scores the match does not have
C33_Witness ==
    /\ current_mode = "match_control" /\ selected_match # None
    /\ calls = {}
    /\ pending_scores # ScoresOf(Val(selected_match))
    /\ ScoresOf(Val(selected_match)) = <<0, 0>>

\* every Match object the controller can reach: those of the snapshot and
\* the selected one
MatchObjects == Range(api_state.matches) \cup Range(selected_match)

\* C35: in every reachable state the two scores of every match and the two
\* entries of pending_scores are natural numbers, whatever the service sent
\* as score text and whatever keys were pressed in the match and
\* score-entry views.
C35_ScoresNonNegative ==
    /\ \A match \in MatchObjects : match.player1_score \in Nat /\ match.player2_score \in Nat
    /\ pending_scores[1] \in Nat /\ pending_scores[2] \in Nat

\* the score view on a match parsed from "-1-1" (read as 0-1): the buffer
\* was seeded with 0-1 and has been taken down to 0-0
C35_Witness ==
    /\ current_mode = "score_entry" /\ selected_match # None
    /\ ScoresOf(Val(selected_match)) = <<0, 1>>
    /\ pending_scores = <<0, 0>>

(***************************************************************************)
(* Claims about the order of the snapshot                                  *)
(***************************************************************************)
\* C36: in every reachable state the matches of the snapshot are in the
\* order of sort_key, so that the underway and open matches the main view
\* shows are read from an ordered sequence.
C36_SnapshotOrdered ==
    \A i, j \in DOMAIN api_state.matches :
       i < j => KeyLeq(sort_key(api_state.matches[i]), sort_key(api_state.matches[j]))

(***************************************************************************)
(* Claims about the end of the run                                         *)
(***************************************************************************)
\* _action_exit has run and the cleanup of run() has not begun
ExitHandled == run_pc \in {"started", "key_loop"} /\ ~running
PollThreadStopped == pc["poll"] = "stopped"
ShutdownReached == run_pc = "closed"

\* C37: once the exit action has been handled, the poll thread stops, the
\* key event loop returns and the cleanup of run() reaches its end (channel
\* disconnected, keys cleared, device closed).
C37_ExitTerminates == ExitHandled ~> (PollThreadStopped /\ ShutdownReached)

(***************************************************************************)
(* Claims about the selection                                              *)
(***************************************************************************)
\* C38: in every reachable state, with the key thread and the poll thread
\* interleaved, a match is selected while the view is the match view or the
\* score view, and a handler that has passed its selection check still has
\* a selected match when it reads the match's fields.
C38_SelectionPresent ==
    /\ current_mode \in {"match_control", "score_entry"} => selected_match # None
    /\ key_pc = "quick_score" => selected_match # None

(***************************************************************************)
(* Claims about the remote calls                                           *)
(***************************************************************************)
\* C39: when every score update started for a match has reached the
\* service, the one the service received last carries the scores the match
\* has locally.
C39_LastUpdateIsFinal ==
    \A i \in DOMAIN api_state.matches :
       (/\ calls = {}
        /\ last.op = "update_score"
        /\ Val(last.data).match_id = api_state.matches[i].id)
       => Val(last.data).args = ScoresOf(api_state.matches[i])

(***************************************************************************)
(* Claims about pushes without matches                                     *)
(***************************************************************************)
NoMatchesIn(data) == data.matches = None \/ Val(data.matches) = <<>>

\* C40: a matches:update event whose list is absent or empty is turned
\* down: update_from_websocket_matches returns False, the snapshot stays as
\* it is, last_update and counters included, and the handler renders
\* nothing and leaves the selection alone.
C40_EmptyPushRejected ==
    [][ \A data \in NotedPushes :
          (NoMatchesIn(data) /\ WsMatchesUpdate(data))
          => /\ ~PushMatchesResult(api_state, data, now).ok
             /\ api_state' = api_state
             /\ UNCHANGED <<current_mode, key_configs, selected_match, sel_idx>>
      ]_vars

\* such an event has been handled while the match view showed a match of a
\* populated snapshot
C40_Witness ==
    /\ last.op = "push" /\ NoMatchesIn(Val(last.data)) /\ ~last.ok
    /\ current_mode = "match_control" /\ selected_match # None
    /\ api_state.matches # <<>>
    /\ ws_last_event = now
====
